---------------------------- MODULE Spec2Model ----------------------------
(***************************************************************************)
(* A model of qmm-rs: the markup scanner (FormattedText::parse), the       *)
(* formula scanner (Formula::parse) and the binary quest decoder           *)
(* (parse_qmm).  Strings are sequences of one-character strings, byte      *)
(* buffers are sequences of 0..255, and every position is 0-based as in    *)
(* the source.                                                             *)
(***************************************************************************)
EXTENDS Integers, Sequences, FiniteSets, TLC

VARIABLES
    pc,           \* where the modelled call stands
    buffer,       \* text.as_bytes() of the scanner under way
    pos,          \* the scan position
    last_el_pos,  \* FormattedText::parse: the flush marker
    elements,     \* FormattedText::parse: the elements pushed so far
    iters,        \* FormattedText::parse: iterations of the scan loop so far
    tokens,       \* Formula::parse: formula.tokens
    error,        \* Formula::parse: the FormulaError returned, if any
    data,         \* parse_qmm: the bytes of the cursor
    cursor,       \* parse_qmm: cursor.position()
    quest,        \* parse_qmm: the parts decoded so far
    loop_iter,    \* parse_qmm: the counter of the loop under way
    outcome,      \* parse_qmm: the ParsingError returned, if any
    origin,       \* parse_qmm: how the buffer of this call came about
    build         \* parse_qmm: the settings the crate was compiled with

vars ==
    <<pc, buffer, pos, last_el_pos, elements, iters, tokens, error,
      data, cursor, quest, loop_iter, outcome, origin, build>>

textVars == <<last_el_pos, elements, iters>>
formulaVars == <<tokens, error>>
qmmVars == <<data, cursor, quest, loop_iter, outcome, origin, build>>
scannerVars == <<buffer, pos, textVars, formulaVars>>


\* Quest, its parts unset until decoded
NoQuest ==
    [header |-> <<>>, parameters |-> <<>>, string_replacements |-> <<>>, info |-> <<>>,
     locations |-> <<>>, jumps |-> <<>>]

\* no decoder call under way
QmmIdle ==
    /\ data = <<>>
    /\ cursor = 0
    /\ quest = NoQuest
    /\ loop_iter = 0
    /\ outcome = <<>>
    /\ origin = "none"
    /\ build = [overflow_checks |-> FALSE]

----------------------------------------------------------------------------
(* Bounds of the model *)

\* the number of fragments an input text is put together from
MaxFrags == 3

\* how many non-advancing iterations of the scan loop are followed
MaxStall == 2

\* the number of fragments a formula text is put together from
MaxFormulaFrags == 3

\* the number of items of a generated range-set literal
MaxItems == 3

\* the number of parameters, of locations and of jumps of a generated quest
MaxRecords == 1

\* the number of spaces on either side of a generated `to`
MaxSpaces == 1

----------------------------------------------------------------------------
(* Helpers over 0-based buffers *)

NoByte == "EOF"

\* buffer.get(i)
Get(buf, i) == IF i >= 0 /\ i < Len(buf) THEN buf[i + 1] ELSE NoByte

\* buffer[a..b]
Slice(buf, a, b) == SubSeq(buf, a + 1, b)

\* buffer.get(a..=b) == Some(word)
GetIs(buf, a, b, word) == b < Len(buf) /\ Slice(buf, a, b + 1) = word

Digits == {"0", "1", "2", "3", "4", "5", "6", "7", "8", "9"}

DigitVal(ch) ==
    CASE ch = "0" -> 0 [] ch = "1" -> 1 [] ch = "2" -> 2 [] ch = "3" -> 3
      [] ch = "4" -> 4 [] ch = "5" -> 5 [] ch = "6" -> 6 [] ch = "7" -> 7
      [] ch = "8" -> 8 [] ch = "9" -> 9

\* the decimal value of a non-empty sequence of digits
RECURSIVE DecimalValue(_)
DecimalValue(ds) ==
    IF ds = <<>> THEN 0
    ELSE 10 * DecimalValue(SubSeq(ds, 1, Len(ds) - 1)) + DigitVal(ds[Len(ds)])

RECURSIVE Flatten(_)
Flatten(ss) == IF ss = <<>> THEN <<>> ELSE Head(ss) \o Flatten(Tail(ss))

RECURSIVE Concats(_, _)
\* every concatenation of at most n members of frags
Concats(frags, n) ==
    IF n = 0 THEN {<<>>}
    ELSE {<<>>} \cup {f \o t : f \in frags, t \in Concats(frags, n - 1)}

----------------------------------------------------------------------------
(* FormattedText: src/qmm-syntax/src/text/formatted_text.rs *)

VARIABLE_NAMES == <<
    <<"<", "T", "o", "S", "t", "a", "r", ">">>,
    <<"<", "T", "o", "P", "l", "a", "n", "e", "t", ">">>,
    <<"<", "F", "r", "o", "m", "S", "t", "a", "r", ">">>,
    <<"<", "F", "r", "o", "m", "P", "l", "a", "n", "e", "t", ">">>,
    <<"<", "R", "a", "n", "g", "e", "r", ">">>,
    <<"<", "D", "a", "t", "e", ">">>,
    <<"<", "D", "a", "y", ">">>,
    <<"<", "M", "o", "n", "e", "y", ">">> >>

CLR_BEGIN_TAG == <<"<", "c", "l", "r", ">">>
CLR_END_TAG == <<"<", "c", "l", "r", "E", "n", "d", ">">>

\* TextElement { kind, value }; name, text and index are the kind's payload
TextElement(kind, value, name, text, index) ==
    [kind |-> kind, value |-> value, name |-> name, text |-> text, index |-> index]

NoElement == TextElement("None", <<>>, <<>>, <<>>, 0)

push_text_lossy(l, p, buf, els) ==
    IF l # Len(buf) /\ l + 1 < p
    THEN Append(els, TextElement("Text", Slice(buf, l + 1, p), <<>>, <<>>, 0))
    ELSE els

\* a flush that does not ask whether any character stands before the element
push_text_unguarded(l, p, buf, els) ==
    IF l # Len(buf)
    THEN Append(els, TextElement("Text", Slice(buf, l, p), <<>>, <<>>, 0))
    ELSE els

push_text_from_prev_el(l, p, buf, els) ==
    IF l # Len(buf) /\ l # p
    THEN Append(els, TextElement("Text", Slice(buf, l, p), <<>>, <<>>, 0))
    ELSE els

RECURSIVE FormattedText_try_parse_parameter_loop(_, _, _)
FormattedText_try_parse_parameter_loop(buf, start, p) ==
    IF p >= Len(buf) THEN NoElement
    ELSE IF buf[p + 1] = "]"
         THEN IF p = start + 2 THEN NoElement
              ELSE TextElement("Parameter", Slice(buf, start, p + 1), <<>>, <<>>,
                               DecimalValue(Slice(buf, start + 2, p)))
    ELSE IF buf[p + 1] \in Digits THEN FormattedText_try_parse_parameter_loop(buf, start, p + 1)
    ELSE NoElement

FormattedText_try_parse_parameter(buf, start) ==
    IF Get(buf, start + 1) # "p" THEN NoElement
    ELSE FormattedText_try_parse_parameter_loop(buf, start, start + 2)

RECURSIVE try_parse_formula_loop(_, _, _)
try_parse_formula_loop(buf, start, p) ==
    IF p >= Len(buf) THEN NoElement
    ELSE IF buf[p + 1] = "}"
         THEN TextElement("Formula", Slice(buf, start, p + 1), <<>>,
                          Slice(buf, start + 1, p), 0)
    ELSE try_parse_formula_loop(buf, start, p + 1)

try_parse_formula(buf, start) == try_parse_formula_loop(buf, start, start)

try_parse_current_parameter(buf, start) ==
    IF Get(buf, start) = "<" /\ Get(buf, start + 1) = ">"
    THEN TextElement("CurrentParameter", <<"<", ">">>, <<>>, <<>>, 0)
    ELSE NoElement

\* Some(end) as the end position, None as -1
try_parse_text_selection_begin_tag_end(buf, start) ==
    LET begin_tag_end == start + Len(CLR_BEGIN_TAG) - 1
    IN  IF GetIs(buf, start, begin_tag_end, CLR_BEGIN_TAG) THEN begin_tag_end ELSE -1

try_parse_text_selection_end_tag_end(buf, start) ==
    LET end_tag_end == start + Len(CLR_END_TAG) - 1
    IN  IF GetIs(buf, start, end_tag_end, CLR_END_TAG) THEN end_tag_end ELSE -1

RECURSIVE try_parse_text_selection_nested(_, _, _, _)
\* a search for the close tag that passes over any other `<`
try_parse_text_selection_nested(buf, start, text_start, p) ==
    IF p >= Len(buf) THEN NoElement
    ELSE IF buf[p + 1] = "<" /\ try_parse_text_selection_end_tag_end(buf, p) # -1
         THEN TextElement("Selection",
                          Slice(buf, start, try_parse_text_selection_end_tag_end(buf, p) + 1),
                          <<>>, Slice(buf, text_start, p), 0)
    ELSE try_parse_text_selection_nested(buf, start, text_start, p + 1)

RECURSIVE try_parse_text_selection_loop(_, _, _, _)
try_parse_text_selection_loop(buf, start, text_start, p) ==
    IF p >= Len(buf) THEN NoElement
    ELSE IF buf[p + 1] = "<"
         THEN LET end_tag_end == try_parse_text_selection_end_tag_end(buf, p)
              IN  IF end_tag_end = -1 THEN NoElement
                  ELSE TextElement("Selection", Slice(buf, start, end_tag_end + 1),
                                   <<>>, Slice(buf, text_start, p), 0)
    ELSE try_parse_text_selection_loop(buf, start, text_start, p + 1)

try_parse_text_selection(buf, start) ==
    LET begin_tag_end == try_parse_text_selection_begin_tag_end(buf, start)
    IN  IF begin_tag_end = -1 THEN NoElement
        ELSE try_parse_text_selection_loop(buf, start, begin_tag_end + 1,
                                           begin_tag_end + 1)

\* var.as_bytes().get(rel_pos) == ch for some catalogue name
do_matches_any_var(ch, rel_pos) ==
    \E v \in 1..Len(VARIABLE_NAMES) :
        rel_pos < Len(VARIABLE_NAMES[v]) /\ VARIABLE_NAMES[v][rel_pos + 1] = ch

RECURSIVE try_parse_variable_loop(_, _, _)
try_parse_variable_loop(buf, start, p) ==
    IF p >= Len(buf) THEN NoElement
    ELSE IF ~do_matches_any_var(buf[p + 1], p - start) THEN NoElement
    ELSE IF buf[p + 1] = ">"
         THEN TextElement("Variable", Slice(buf, start, p + 1),
                          Slice(buf, start + 1, p), <<>>, 0)
    ELSE try_parse_variable_loop(buf, start, p + 1)

try_parse_variable(buf, start) == try_parse_variable_loop(buf, start, start)

\* the or_else chain of the `<` branch
OrElse(a, b) == IF a # NoElement THEN a ELSE b

try_parse_lt(buf, start) ==
    OrElse(try_parse_variable(buf, start),
           OrElse(try_parse_current_parameter(buf, start),
                  try_parse_text_selection(buf, start)))

NewLineLF == TextElement("NewLine", <<"\n">>, <<>>, <<>>, 0)
NewLineCRLF == TextElement("NewLine", <<"\r", "\n">>, <<>>, <<>>, 0)

(* the inputs of the markup scanner *)
TextFragments == {
    <<"<">>, <<">">>, <<"<", "D", "a">>, <<"y", ">">>, <<"t", "e", ">">>, <<"t">>,
    <<"\n">>, <<"\r">>, <<"x">>, <<"[", "p">>, <<"1", "]">>, <<"{">>, <<"}">>,
    CLR_BEGIN_TAG, CLR_END_TAG }

TextInputs(n) == Concats(TextFragments, n)

\* one construct of each kind the scanner recognizes, whole
Constructs == {
    <<"<", "D", "a", "y", ">">>, <<"<", ">">>,
    <<"[", "p", "1", "]">>, <<"[", "p", "1", "2", "]">>,
    <<"{", "x", "}">>, <<"{", "}">>,
    CLR_BEGIN_TAG \o <<"x">> \o CLR_END_TAG, CLR_BEGIN_TAG \o CLR_END_TAG }

\* two constructs written back to back, then the end, a letter or a line feed
AdjacentInputs ==
    {a \o b \o c : a \in Constructs, b \in Constructs, c \in {<<>>, <<"x">>, <<"\n">>}}

\* bracketed spans that are no parameter reference
MalformedReferences == {
    <<"[", "p", "]">>, <<"[", "]">>, <<"[", "p", "p", "]">>, <<"[", "p", "-", "]">>,
    <<"[", "p", " ", "]">>, <<"[", "p", "1", "2">>, <<"[", "p", "-", "1", "]">> }

\* one of them after nothing, a letter or a reference, then a construct or the end
ReferenceInputs ==
    {a \o b \o c : a \in {<<>>, <<"x">>, <<"[", "p", "0", "]">>},
                   b \in MalformedReferences, c \in Constructs \cup {<<>>}}

InitText ==
    /\ pc = "start"
    /\ \/ buffer \in TextInputs(MaxFrags)
       \/ buffer \in AdjacentInputs
       \/ buffer \in ReferenceInputs
    /\ pos = 0
    /\ last_el_pos = 0
    /\ elements = <<>>
    /\ iters = 0
    /\ tokens = <<>>
    /\ error = <<>>
    /\ QmmIdle

\* formatted_text.rs 66-75: the empty-input return, else the loop is entered
ParseStart ==
    /\ pc = "start"
    /\ pc' = IF buffer = <<>> THEN "done" ELSE "scan"
    /\ UNCHANGED <<buffer, pos, last_el_pos, elements, iters, formulaVars, qmmVars>>

\* an element was recognized at pos: flush, push, move past it; `skip` is the
\* loop's trailing pos += 1 (absent where the branch ends with continue)
Recognized(el, skip) ==
    /\ elements' = Append(push_text_from_prev_el(last_el_pos, pos, buffer, elements), el)
    /\ last_el_pos' = pos + Len(el.value)
    /\ pos' = pos + Len(el.value) + skip

NotRecognized ==
    /\ pos' = pos + 1
    /\ UNCHANGED <<last_el_pos, elements>>

InLoop(chs) == pc = "scan" /\ pos < Len(buffer) /\ buffer[pos + 1] \in chs

ScanLt ==
    /\ InLoop({"<"})
    /\ LET el == try_parse_lt(buffer, pos)
       IN  IF el # NoElement THEN Recognized(el, 1) ELSE NotRecognized
    /\ iters' = iters + 1
    /\ UNCHANGED <<pc, buffer, formulaVars, qmmVars>>

ScanBrace ==
    /\ InLoop({"{"})
    /\ LET el == try_parse_formula(buffer, pos)
       IN  IF el # NoElement THEN Recognized(el, 1) ELSE NotRecognized
    /\ iters' = iters + 1
    /\ UNCHANGED <<pc, buffer, formulaVars, qmmVars>>

ScanLF ==
    /\ InLoop({"\n"})
    /\ Recognized(NewLineLF, 1)
    /\ iters' = iters + 1
    /\ UNCHANGED <<pc, buffer, formulaVars, qmmVars>>

\* formatted_text.rs 129-146: both paths end with continue
ScanCR ==
    /\ InLoop({"\r"})
    /\ IF Get(buffer, pos + 1) # "\n"
       THEN /\ iters < pos + MaxStall
            /\ UNCHANGED <<pos, last_el_pos, elements>>
       ELSE Recognized(NewLineCRLF, 0)
    /\ iters' = iters + 1
    /\ UNCHANGED <<pc, buffer, formulaVars, qmmVars>>

ScanBracket ==
    /\ InLoop({"["})
    /\ LET el == FormattedText_try_parse_parameter(buffer, pos)
       IN  IF el # NoElement THEN Recognized(el, 1) ELSE NotRecognized
    /\ iters' = iters + 1
    /\ UNCHANGED <<pc, buffer, formulaVars, qmmVars>>

ScanOther ==
    /\ pc = "scan" /\ pos < Len(buffer)
    /\ buffer[pos + 1] \notin {"<", "{", "\n", "\r", "["}
    /\ NotRecognized
    /\ iters' = iters + 1
    /\ UNCHANGED <<pc, buffer, formulaVars, qmmVars>>

\* formatted_text.rs 162-164: the final flush
ScanEnd ==
    /\ pc = "scan" /\ pos >= Len(buffer)
    /\ elements' = push_text_from_prev_el(last_el_pos, pos, buffer, elements)
    /\ pc' = "done"
    /\ UNCHANGED <<buffer, pos, last_el_pos, iters, formulaVars, qmmVars>>

NextText ==
    \/ ParseStart
    \/ ScanLt
    \/ ScanBrace
    \/ ScanLF
    \/ ScanCR
    \/ ScanBracket
    \/ ScanOther
    \/ ScanEnd

SpecText == InitText /\ [][NextText]_vars

----------------------------------------------------------------------------
(* Properties of the markup scanner *)

Range(s) == {s[i] : i \in 1..Len(s)}

Values(els) == [i \in 1..Len(els) |-> els[i].value]

Kinds(els) == {els[i].kind : i \in 1..Len(els)}

\* C1: when FormattedText::parse returns, the values of its elements,
\* concatenated in order, are the input: nothing dropped, duplicated or
\* reordered, malformed and unterminated tags included.
C1_TotalCoverage == pc = "done" => Flatten(Values(elements)) = buffer

\* C1's case: a parse that returned with a recognized element and with a
\* malformed tag left in a Text element
C1_Witness ==
    /\ pc = "done"
    /\ Kinds(elements) \cap {"Variable", "Formula", "Parameter", "Selection"} # {}
    /\ \E i \in 1..Len(elements) :
           elements[i].kind = "Text" /\ Range(elements[i].value) \cap {"<", "[", "{"} # {}

\* C2: every iteration of the scan loop strictly advances the scan position,
\* also at a `\r` that no `\n` follows.
C2_EveryIterationAdvances == [][iters' = iters + 1 => pos' > pos]_vars

\* C7: a Variable element is emitted only for a span that is one of the eight
\* catalogue names.
C7_VariableOnlyFromCatalogue ==
    \A i \in 1..Len(elements) :
        elements[i].kind = "Variable" => elements[i].value \in Range(VARIABLE_NAMES)

\* C9: every line feed of the input outside a formula or selection span is
\* emitted as a NewLine element, two characters long exactly when a `\r`
\* stands right before it; no Text element holds a `\n`.
C9_LineFeedsAreNewLines ==
    pc = "done" =>
        \A i \in 1..Len(elements) :
            /\ elements[i].kind \notin {"NewLine", "Formula", "Selection"}
                   => "\n" \notin Range(elements[i].value)
            /\ (elements[i].kind = "NewLine" /\ i > 1 /\ elements[i].value = <<"\n">>)
                   => elements[i - 1].value[Len(elements[i - 1].value)] # "\r"

\* C21: after a non-text element is recognized the scan resumes at the first
\* character after it: two constructs written back to back are returned as
\* two non-text elements with no Text element.
C21_AdjacentConstructs ==
    (pc = "done" /\ buffer \in {a \o b : a \in Constructs, b \in Constructs})
        => (Len(elements) = 2 /\ "Text" \notin Kinds(elements))

----------------------------------------------------------------------------
(* Formula: src/qmm-syntax/src/text/formula.rs *)

I32_MIN == -2147483647 - 1

\* `n as usize` for an i32 n, as the four 16-bit limbs of the 64-bit value,
\* most significant first
AsUsize(n) ==
    IF n >= 0 THEN <<0, 0, n \div 65536, n % 65536>>
    ELSE LET m == n - I32_MIN
         IN  <<65535, 65535, 32768 + (m \div 65536), m % 65536>>

\* FormulaToken { kind, value }; the other fields are the kind's payload:
\* int (Integer), double (Double, as <<mantissa, fraction digits>>), index
\* (Parameter), ranges (Range, each a..=b as <<a, b>>), start and end (ToRange)
FormulaToken(kind, value, int, double, index, ranges, start, end) ==
    [kind |-> kind, value |-> value, int |-> int, double |-> double, index |-> index,
     ranges |-> ranges, start |-> start, end |-> end]

SimpleToken(kind, value) == FormulaToken(kind, value, 0, <<>>, <<>>, <<>>, <<>>, <<>>)

\* FormulaError { position, kind }; found and expected belong to UnexpectedToken
FormulaError(position, kind, found, expected) ==
    [position |-> position, kind |-> kind, found |-> found, expected |-> expected]

ExpectedInteger(position) == FormulaError(position, "ExpectedInteger", "", <<>>)
UnexpectedEOF(position) == FormulaError(position, "UnexpectedEOF", "", <<>>)

\* Option<Result<FormulaToken, FormulaError>>, and the panic of an index out of
\* bounds
None == [tag |-> "None", token |-> <<>>, error |-> <<>>]
SomeOk(token) == [tag |-> "Ok", token |-> token, error |-> <<>>]
SomeErr(err) == [tag |-> "Err", token |-> <<>>, error |-> err]
Panic == [tag |-> "Panic", token |-> <<>>, error |-> <<>>]

\* Some(Err(UnexpectedToken { found: buffer[pos] as char, expected })): the
\* index panics when pos is past the end
UnexpectedAt(buf, p, expected) ==
    IF p >= Len(buf) THEN Panic
    ELSE SomeErr(FormulaError(p, "UnexpectedToken", buf[p + 1], expected))

\* formula.rs 628-659: where the scan of a number stops, whether it saw a
\* decimal point, and the position of a second decimal point (-1: none)
RECURSIVE try_parse_number_scan(_, _, _, _)
try_parse_number_scan(buf, start, p, is_double) ==
    IF p >= Len(buf) THEN [pos |-> p, is_double |-> is_double, bad |-> -1]
    ELSE LET ch == buf[p + 1]
         IN  IF ch \in Digits THEN try_parse_number_scan(buf, start, p + 1, is_double)
             ELSE IF ch = "."
                  THEN IF Get(buf, p + 1) = "."
                       THEN [pos |-> p, is_double |-> is_double, bad |-> -1]
                       ELSE IF is_double
                            THEN [pos |-> p, is_double |-> is_double, bad |-> p]
                            ELSE try_parse_number_scan(buf, start, p + 1, TRUE)
             ELSE IF ch = "-" /\ p = start
                  THEN try_parse_number_scan(buf, start, p + 1, is_double)
             ELSE [pos |-> p, is_double |-> is_double, bad |-> -1]

OnlyDigits(s) == \A i \in 1..Len(s) : s[i] \in Digits

\* str::parse::<i32>() of a string of `-` and digits: <<TRUE, n>> or <<FALSE, 0>>
\* (no digit, or more digits than the inputs here hold, is the Err)
ParseI32(s) ==
    LET neg == s # <<>> /\ s[1] = "-"
        ds == IF neg THEN Tail(s) ELSE s
        n == IF neg THEN -DecimalValue(ds) ELSE DecimalValue(ds)
    IN  IF ds # <<>> /\ OnlyDigits(ds) /\ Len(ds) <= 9 THEN <<TRUE, n>> ELSE <<FALSE, 0>>

\* str::parse::<f64>() of a string of `-`, digits and one `.`: the value is
\* mantissa / 10^(fraction digits)
ParseF64(s) ==
    LET neg == s # <<>> /\ s[1] = "-"
        ds == IF neg THEN Tail(s) ELSE s
        dot == CHOOSE i \in 1..Len(ds) : ds[i] = "."
        whole == SubSeq(ds, 1, dot - 1)
        frac == SubSeq(ds, dot + 1, Len(ds))
        m == DecimalValue(whole \o frac)
    IN  IF Len(ds) >= 2 /\ OnlyDigits(whole \o frac) /\ Len(ds) <= 9
        THEN <<TRUE, <<IF neg THEN -m ELSE m, Len(frac)>> >>
        ELSE <<FALSE, <<>> >>

\* a reading of numbers that never takes a leading `-`
try_parse_number_unsigned(buf, start) ==
    IF Get(buf, start) = "-" THEN None
    ELSE LET scan == try_parse_number_scan(buf, start, start, FALSE)
             number_string == Slice(buf, start, scan.pos)
         IN  IF scan.bad # -1
             THEN SomeErr(FormulaError(scan.bad, "UnexpectedToken", ".", <<>>))
             ELSE IF scan.is_double THEN None
             ELSE IF ParseI32(number_string)[1]
             THEN SomeOk(FormulaToken("Integer", number_string, ParseI32(number_string)[2],
                                      <<>>, <<>>, <<>>, <<>>, <<>>))
             ELSE None

try_parse_number(buf, start) ==
    LET scan == try_parse_number_scan(buf, start, start, FALSE)
        number_string == Slice(buf, start, scan.pos)
    IN  IF scan.bad # -1
        THEN SomeErr(FormulaError(scan.bad, "UnexpectedToken", ".", <<>>))
        ELSE IF scan.is_double
             THEN LET r == ParseF64(number_string)
                  IN  IF r[1]
                      THEN SomeOk(FormulaToken("Double", number_string, 0, r[2],
                                               <<>>, <<>>, <<>>, <<>>))
                      ELSE None
             ELSE LET r == ParseI32(number_string)
                  IN  IF r[1]
                      THEN SomeOk(FormulaToken("Integer", number_string, r[2], <<>>,
                                               <<>>, <<>>, <<>>, <<>>))
                      ELSE None

RECURSIVE try_parse_word_loop(_, _, _, _)
try_parse_word_loop(word, buf, p, relative) ==
    IF p >= Len(buf) THEN relative = Len(word)
    ELSE IF relative = Len(word) THEN TRUE
    ELSE IF buf[p + 1] # word[relative + 1] THEN FALSE
    ELSE try_parse_word_loop(word, buf, p + 1, relative + 1)

\* a match that also asks for the end of the word: no letter after it
try_parse_word_bounded(word, buf, start) ==
    /\ try_parse_word_loop(word, buf, start, 0)
    /\ Get(buf, start + Len(word)) \notin {"d", "m", "a", "o", "i", "x"}

try_parse_word(word, buf, start) == try_parse_word_loop(word, buf, start, 0)

\* the match on try_parse_number's result in a bracket construct: the token
\* when it is an Integer, ExpectedInteger at p for another kind, and `none`
\* for a None
IntegerResult(r, p, none) ==
    IF r.tag = "None" THEN none
    ELSE IF r.tag = "Ok" /\ r.token.kind # "Integer" THEN SomeErr(ExpectedInteger(p))
    ELSE r

IntegerOr(buf, p, none) == IntegerResult(try_parse_number(buf, p), p, none)

\* formula.rs 599-618: after the number, the closing bracket and the token
try_parse_parameter_close(buf, start, number) ==
    IF number.tag # "Ok" THEN number
    ELSE LET p == start + 2 + Len(number.token.value)
         IN  IF Get(buf, p) # "]" THEN UnexpectedAt(buf, p, <<"]">>)
             ELSE SomeOk(FormulaToken("Parameter", Slice(buf, start, p + 1), 0,
                                      <<>>, AsUsize(number.token.int), <<>>,
                                      <<>>, <<>>))

Formula_try_parse_parameter(buf, start) ==
    IF ~GetIs(buf, start, start + 1, <<"[", "p">>) THEN None
    ELSE try_parse_parameter_close(
             buf, start, IntegerOr(buf, start + 2, SomeErr(ExpectedInteger(start + 2))))

RECURSIVE SkipSpaces(_, _)
\* formula.rs 350-358, 370-378: the position of the first non-space from p on
SkipSpaces(buf, p) ==
    IF p < Len(buf) /\ buf[p + 1] = " " THEN SkipSpaces(buf, p + 1) ELSE p

\* an Option's or_else: the second reading is taken only when the first is None
OrElseToken(a, b) == IF a.tag = "None" THEN b ELSE a

\* formula.rs 321, 387: one side of an open range
ToRangeOperand(buf, p) ==
    OrElseToken(Formula_try_parse_parameter(buf, p), try_parse_number(buf, p))

\* ToRangeValue::Parameter { index } or ToRangeValue::Integer { value }
ToRangeValue(token) ==
    IF token.kind = "Parameter" THEN [kind |-> "Parameter", index |-> token.index, value |-> 0]
    ELSE [kind |-> "Integer", index |-> <<>>, value |-> token.int]

\* an open range whose value is put together from its parts, the spaces dropped
try_parse_to_range_second_trimmed(buf, start, first, p2, second) ==
    IF second.tag \in {"Err", "Panic"} THEN second
    ELSE IF second.tag = "None" THEN UnexpectedAt(buf, p2, <<>>)
    ELSE IF second.token.kind \notin {"Parameter", "Integer"} THEN UnexpectedAt(buf, p2, <<>>)
    ELSE SomeOk(FormulaToken("ToRange",
                             first.token.value \o <<"t", "o">> \o second.token.value, 0,
                             <<>>, <<>>, <<>>, ToRangeValue(first.token),
                             ToRangeValue(second.token)))

\* formula.rs 387-433: the match on the second operand, read at p2
try_parse_to_range_second(buf, start, first, p2, second) ==
    IF second.tag \in {"Err", "Panic"} THEN second
    ELSE IF second.tag = "None" THEN UnexpectedAt(buf, p2, <<>>)
    ELSE IF second.token.kind \notin {"Parameter", "Integer"} THEN UnexpectedAt(buf, p2, <<>>)
    ELSE SomeOk(FormulaToken("ToRange", Slice(buf, start, p2 + Len(second.token.value)), 0,
                             <<>>, <<>>, <<>>, ToRangeValue(first.token),
                             ToRangeValue(second.token)))

\* formula.rs 360-385: `to` at p1, the spaces after it, and the end of input
try_parse_to_range_word(buf, start, first, p1, p2) ==
    IF p1 = Len(buf) THEN None
    ELSE IF ~GetIs(buf, p1, p1 + 1, <<"t", "o">>) THEN None
    ELSE IF p2 = Len(buf) THEN SomeErr(UnexpectedEOF(p2))
    ELSE try_parse_to_range_second(buf, start, first, p2, ToRangeOperand(buf, p2))

\* formula.rs 321-358: the match on the first operand and the spaces after it
try_parse_to_range_first(buf, start, first, p1) ==
    IF first.tag \in {"Err", "Panic"} THEN first
    ELSE IF first.tag = "None" THEN UnexpectedAt(buf, start, <<>>)
    ELSE IF first.token.kind \notin {"Parameter", "Integer"} THEN None
    ELSE try_parse_to_range_word(buf, start, first, p1, SkipSpaces(buf, p1 + 2))

\* where the spaces after a read operand end
AfterOperand(buf, start, r) ==
    IF r.tag = "Ok" THEN SkipSpaces(buf, start + Len(r.token.value)) ELSE start

try_parse_to_range_on(buf, start, first) ==
    try_parse_to_range_first(buf, start, first, AfterOperand(buf, start, first))

try_parse_to_range(buf, start) == try_parse_to_range_on(buf, start, ToRangeOperand(buf, start))

\* formula.rs 546-562: after the loop, the closing bracket or the error
try_parse_range_close(buf, start, p, ranges) ==
    IF Get(buf, p) # "]" THEN UnexpectedAt(buf, p, <<"]">>)
    ELSE SomeOk(FormulaToken("Range", Slice(buf, start, p + 1), 0, <<>>, <<>>, ranges,
                             <<>>, <<>>))

\* formula.rs 527-531: a single integer before `;` is pushed as e..=e
single_item(ranges, start_range) == Append(ranges, <<start_range, start_range>>)

RECURSIVE try_parse_range_loop(_, _, _, _)
\* formula.rs 476-512: a..b read, its interval pushed; then `]`, `;` or the error
try_parse_range_pair(buf, start, ranges, start_range, p1, second) ==
    IF second.tag # "Ok" THEN second
    ELSE LET p2 == p1 + 2 + Len(second.token.value)
             pushed == Append(ranges, <<start_range, second.token.int>>)
         IN  IF Get(buf, p2) = "]" THEN try_parse_range_close(buf, start, p2, pushed)
             ELSE IF Get(buf, p2) = ";" THEN try_parse_range_loop(buf, start, p2 + 1, pushed)
             ELSE UnexpectedAt(buf, p2, <<";">>)

\* formula.rs 476-543: what follows the first integer of an item, at p1
try_parse_range_item(buf, start, ranges, start_range, p1) ==
    IF GetIs(buf, p1, p1 + 1, <<".", ".">>)
    THEN try_parse_range_pair(buf, start, ranges, start_range, p1,
                              IntegerOr(buf, p1 + 2, SomeErr(ExpectedInteger(p1 + 2))))
    ELSE IF p1 >= Len(buf) THEN SomeErr(UnexpectedEOF(p1))
    ELSE IF buf[p1 + 1] = ";"
         THEN try_parse_range_loop(buf, start, p1 + 1, single_item(ranges, start_range))
    ELSE IF buf[p1 + 1] = "]" THEN try_parse_range_close(buf, start, p1, ranges)
    ELSE SomeErr(FormulaError(p1, "UnexpectedToken", buf[p1 + 1],
                              <<";", " ", "o", "r", " ", "]">>))

\* formula.rs 457-474: the match on the first integer of an item, read at p
try_parse_range_start(buf, start, p, ranges, first) ==
    IF first.tag # "Ok" THEN first
    ELSE try_parse_range_item(buf, start, ranges, first.token.int,
                              p + Len(first.token.value))

\* formula.rs 456-544: the loop over the items, from position p on
try_parse_range_loop(buf, start, p, ranges) ==
    IF p >= Len(buf) THEN try_parse_range_close(buf, start, p, ranges)
    ELSE try_parse_range_start(buf, start, p, ranges, IntegerOr(buf, p, None))

try_parse_range(buf, start) ==
    IF buf[start + 1] # "[" THEN None
    ELSE IF Get(buf, start + 1) = "]" THEN SomeErr(ExpectedInteger(start + 1))
    ELSE try_parse_range_loop(buf, start, start + 1, <<>>)

\* formula.rs 138-168: the one-character tokens
SingleKind(ch) ==
    CASE ch = "(" -> "OpenParenthesis" [] ch = ")" -> "CloseParenthesis"
      [] ch = "+" -> "Add" [] ch = "*" -> "Multiply" [] ch = "/" -> "Divide"

\* formula.rs 169-228: the keyword a letter must begin, and its token kind
KeywordOf(ch) ==
    CASE ch = "d" -> [word |-> <<"d", "i", "v">>, kind |-> "DivideWithRemain"]
      [] ch = "m" -> [word |-> <<"m", "o", "d">>, kind |-> "Modulo"]
      [] ch = "a" -> [word |-> <<"a", "n", "d">>, kind |-> "And"]
      [] ch = "o" -> [word |-> <<"o", "r">>, kind |-> "Or"]
      [] ch = "i" -> [word |-> <<"i", "n">>, kind |-> "In"]

\* a reading of comparisons that never looks at the second character
CompareToken_single(buf, p) ==
    IF buf[p + 1] = ">" THEN SimpleToken("Greater", <<">">>)
    ELSE IF buf[p + 1] = "<" THEN SimpleToken("Lesser", <<"<">>)
    ELSE SimpleToken("Assignment", <<"=">>)

\* formula.rs 229-280: the comparison token at buf[p], longest first
CompareToken(buf, p) ==
    LET ch == buf[p + 1]
    IN  IF ch = ">" /\ try_parse_word(<<">", "=">>, buf, p)
        THEN SimpleToken("GreaterOrEqual", <<">", "=">>)
        ELSE IF ch = ">" THEN SimpleToken("Greater", <<">">>)
        ELSE IF ch = "<" /\ try_parse_word(<<"<", "=">>, buf, p)
        THEN SimpleToken("LesserOrEqual", <<"<", "=">>)
        ELSE IF ch = "<" /\ try_parse_word(<<"<", ">">>, buf, p)
        THEN SimpleToken("NotEqual", <<"<", ">">>)
        ELSE IF ch = "<" THEN SimpleToken("Lesser", <<"<">>)
        ELSE IF try_parse_word(<<"=", "=">>, buf, p)
        THEN SimpleToken("Equal", <<"=", "=">>)
        ELSE SimpleToken("Assignment", <<"=">>)

\* formula.rs 282 with the readings the other way round: the plain number first
digit_token_number_first(buf, p) ==
    OrElseToken(try_parse_number(buf, p), try_parse_to_range(buf, p))

\* formula.rs 282: at a digit, the open range and then the plain number
digit_token(buf, p) ==
    OrElseToken(try_parse_to_range(buf, p), try_parse_number(buf, p))

\* formula.rs 292: at `[`, the range set, the open range, the parameter
bracket_token(buf, p) ==
    OrElseToken(try_parse_range(buf, p),
                OrElseToken(try_parse_to_range(buf, p),
                            Formula_try_parse_parameter(buf, p)))

InitFormulaOn(inputs) ==
    /\ pc = "f_scan"
    /\ buffer \in inputs
    /\ pos = 0
    /\ last_el_pos = 0
    /\ elements = <<>>
    /\ iters = 0
    /\ tokens = <<>>
    /\ error = <<>>
    /\ QmmIdle

\* the token is pushed and the loop's pos += 1 follows
Push(token) ==
    /\ tokens' = Append(tokens, token)
    /\ pos' = pos + (Len(token.value) - 1) + 1
    /\ UNCHANGED <<pc, error>>

\* return Err(err): the tokens scanned so far are dropped with the formula
ReturnErr(err) ==
    /\ pc' = "f_err"
    /\ error' = err
    /\ tokens' = <<>>
    /\ UNCHANGED pos

\* an index past the end of the buffer: the thread panics
Panicked ==
    /\ pc' = "f_panic"
    /\ tokens' = <<>>
    /\ UNCHANGED <<pos, error>>

\* the `token?` of a Some(result)
PushOrFail(r) ==
    CASE r.tag = "Ok" -> Push(r.token)
      [] r.tag = "Err" -> ReturnErr(r.error)
      [] r.tag = "Panic" -> Panicked

\* the ok_or(err)? of an Option<Result>
PushOrElse(r, err) == IF r.tag = "None" THEN ReturnErr(err) ELSE PushOrFail(r)

FAt(chs) == pc = "f_scan" /\ pos < Len(buffer) /\ buffer[pos + 1] \in chs

FScanSingle ==
    /\ FAt({"(", ")", "+", "*", "/"})
    /\ Push(SimpleToken(SingleKind(buffer[pos + 1]), <<buffer[pos + 1]>>))
    /\ UNCHANGED <<buffer, textVars, qmmVars>>

\* formula.rs 146-156
FScanMinus ==
    /\ FAt({"-"})
    /\ LET r == try_parse_number(buffer, pos)
       IN  IF r.tag = "None" THEN Push(SimpleToken("Substract", <<"-">>))
           ELSE PushOrFail(r)
    /\ UNCHANGED <<buffer, textVars, qmmVars>>

FScanKeyword ==
    /\ FAt({"d", "m", "a", "o", "i"})
    /\ LET k == KeywordOf(buffer[pos + 1])
       IN  IF try_parse_word(k.word, buffer, pos) THEN Push(SimpleToken(k.kind, k.word))
           ELSE ReturnErr(FormulaError(pos, "UnexpectedToken", buffer[pos + 1], k.word))
    /\ UNCHANGED <<buffer, textVars, qmmVars>>

FScanCompare ==
    /\ FAt({">", "<", "="})
    /\ Push(CompareToken(buffer, pos))
    /\ UNCHANGED <<buffer, textVars, qmmVars>>

\* formula.rs 281-290
FScanDigit ==
    /\ FAt(Digits)
    /\ PushOrElse(digit_token(buffer, pos), ExpectedInteger(pos))
    /\ UNCHANGED <<buffer, textVars, qmmVars>>

\* formula.rs 291-300
FScanBracket ==
    /\ FAt({"["})
    /\ PushOrElse(bracket_token(buffer, pos),
                  FormulaError(pos, "UnexpectedToken", "[", <<>>))
    /\ UNCHANGED <<buffer, textVars, qmmVars>>

FScanSpace ==
    /\ FAt({" "})
    /\ pos' = pos + 1
    /\ UNCHANGED <<pc, buffer, tokens, error, textVars, qmmVars>>

\* formula.rs 302-304
FScanUnexpected ==
    /\ pc = "f_scan" /\ pos < Len(buffer)
    /\ buffer[pos + 1] \notin Digits \cup {"(", ")", "+", "*", "/", "-", "d", "m", "a", "o",
                                           "i", ">", "<", "=", "[", " "}
    /\ ReturnErr(FormulaError(pos, "UnexpectedToken", buffer[pos + 1], <<>>))
    /\ UNCHANGED <<buffer, textVars, qmmVars>>

\* formula.rs 310
FScanEnd ==
    /\ pc = "f_scan" /\ pos >= Len(buffer)
    /\ pc' = "f_ok"
    /\ UNCHANGED <<buffer, pos, tokens, error, textVars, qmmVars>>

NextFormula ==
    \/ FScanSingle
    \/ FScanMinus
    \/ FScanKeyword
    \/ FScanCompare
    \/ FScanDigit
    \/ FScanBracket
    \/ FScanSpace
    \/ FScanUnexpected
    \/ FScanEnd

(* the inputs of the formula scanner *)
FormulaFragments == {
    <<"[">>, <<"]">>, <<"[", "p">>, <<"1">>, <<"2">>, <<".", ".">>, <<";">>, <<".">>,
    <<"t", "o">>, <<" ">>, <<"-">>, <<"*">>, <<"d", "i", "v">>, <<"d">>, <<"<">>,
    <<"=">>, <<">">>, <<"x">> }

RangeItems == { <<"0", ".", ".", "1">>, <<"2">>, <<"3", ".", ".", "4">> }

RECURSIVE ItemLists(_)
\* the lists of 1..n items, joined by `;`
ItemLists(n) ==
    IF n <= 1 THEN RangeItems
    ELSE ItemLists(n - 1) \cup {l \o <<";">> \o i : l \in ItemLists(n - 1), i \in RangeItems}

RangeLiterals == {<<"[">> \o l \o <<"]">> : l \in ItemLists(MaxItems)}

RECURSIVE Spaces(_)
Spaces(n) == IF n = 0 THEN <<>> ELSE <<" ">> \o Spaces(n - 1)

ToRangeTexts ==
    {a \o Spaces(s1) \o <<"t", "o">> \o Spaces(s2) \o b :
        a \in {<<"1">>, <<"2", "3">>, <<"[", "p", "0", "]">>},
        b \in {<<"1">>, <<"-", "2">>, <<"[", "p", "1", "]">>},
        s1 \in 0..MaxSpaces, s2 \in 0..MaxSpaces}

Before == {<<>>, <<"(">>, <<"2", " ">>, <<"-">>}

After == {<<>>, <<" ", "*", " ", "2", " ", "t", "o", " ", "[", "p", "1", "]">>, <<"3">>,
          <<".">>, <<".", ".">>, <<" ">>, <<"]">>}

Prefixes(s) == {SubSeq(s, 1, k) : k \in 0..Len(s)}

StructuredInputs ==
    UNION {Prefixes(x \o s \o y) :
               x \in Before, s \in RangeLiterals \cup ToRangeTexts, y \in After}

\* what may follow a `-`: numbers with no, one and two decimal points, a lone
\* point, nothing
NumberBodies == {
    <<"3">>, <<"1", "2">>, <<"1", ".", "5">>, <<"1", ".">>, <<".", "5">>,
    <<"1", ".", "2", ".", "3">>, <<".">>, <<>> }

SignedTexts ==
    UNION {Prefixes(x \o <<"-">> \o n \o y) :
               x \in {<<>>, <<"2">>, <<"2", " ">>, <<"-">>},
               n \in NumberBodies,
               y \in {<<>>, <<".", ".", "3">>, <<" ">>, <<"-", "1">>, <<"x">>}}

\* the keywords, whole, run together, cut short and misspelt
KeywordBodies == {
    <<"d", "i", "v">>, <<"m", "o", "d">>, <<"a", "n", "d">>, <<"o", "r">>, <<"i", "n">>,
    <<"d", "i", "v", "m", "o", "d">>, <<"o", "r", "i", "n">>, <<"d", "i", "x">>,
    <<"m", "a", "d">>, <<"a", "n">>, <<"o", "x">>, <<"i">> }

KeywordTexts ==
    UNION {Prefixes(x \o w \o y) :
               x \in {<<>>, <<"1">>, <<"1", " ">>},
               w \in KeywordBodies,
               y \in {<<>>, <<"2">>, <<" ", "2">>, <<"x">>}}

\* what may stand between `[p` and `]`: digits, signed digits, a fraction,
\* a letter, a lone sign, nothing
ParameterBodies == {
    <<"1">>, <<"1", "2">>, <<"0", "1">>, <<"-", "1">>, <<"-", "1", "2">>, <<"-">>, <<>>,
    <<"1", ".", "5">>, <<"x">>, <<"1", "x">> }

ParameterTexts ==
    UNION {Prefixes(x \o <<"[", "p">> \o b \o <<"]">> \o y) :
               x \in {<<>>, <<"2", "*">>},
               b \in ParameterBodies,
               y \in {<<>>, <<" ", "[", "p", "2", "]">>, <<" ", "t", "o", " ", "3">>}}

FormulaInputs(n) == Concats(FormulaFragments, n)

InitFormula ==
    \/ InitFormulaOn(FormulaInputs(MaxFormulaFrags))
    \/ InitFormulaOn(StructuredInputs)
    \/ InitFormulaOn(SignedTexts)
    \/ InitFormulaOn(KeywordTexts)
    \/ InitFormulaOn(ParameterTexts)

SpecFormula == InitFormula /\ [][NextFormula]_vars

----------------------------------------------------------------------------
(* Properties of the formula scanner *)

RECURSIVE RunEnd(_, _, _)
\* the first position from p on whose character is not in chs
RunEnd(buf, p, chs) ==
    IF p < Len(buf) /\ buf[p + 1] \in chs THEN RunEnd(buf, p + 1, chs) ELSE p

NoShape == [ok |-> FALSE, end |-> 0, int |-> 0]

\* an integer literal standing at p, a sign allowed when `signed`: a run of
\* digits that no decimal point continues
IntegerShape(buf, p, signed) ==
    LET neg == signed /\ Get(buf, p) = "-"
        q == IF neg THEN p + 1 ELSE p
        e == RunEnd(buf, q, Digits)
        n == DecimalValue(Slice(buf, q, e))
    IN  IF e > q /\ ~(Get(buf, e) = "." /\ Get(buf, e + 1) # ".")
        THEN [ok |-> TRUE, end |-> e, int |-> IF neg THEN -n ELSE n]
        ELSE NoShape

\* a parameter reference `[p<digits>]` standing at p
ParameterShape(buf, p) ==
    LET e == RunEnd(buf, p + 2, Digits)
    IN  IF Get(buf, p) = "[" /\ Get(buf, p + 1) = "p" /\ e > p + 2 /\ Get(buf, e) = "]"
        THEN [ok |-> TRUE, end |-> e + 1, int |-> DecimalValue(Slice(buf, p + 2, e))]
        ELSE NoShape

\* an operand of an open range standing at p, and the ToRangeValue it denotes
OperandShape(buf, p, signed) ==
    IF Get(buf, p) = "[" THEN ParameterShape(buf, p) ELSE IntegerShape(buf, p, signed)

OperandValue(buf, p, shape) ==
    IF Get(buf, p) = "["
    THEN [kind |-> "Parameter", index |-> AsUsize(shape.int), value |-> 0]
    ELSE [kind |-> "Integer", index |-> <<>>, value |-> shape.int]

\* operand, spaces, `to`, spaces, operand standing at p: the token it should
\* give, or NoShape
ToRangeShape(buf, p) ==
    LET a == OperandShape(buf, p, FALSE)
        t == RunEnd(buf, a.end, {" "})
        c == RunEnd(buf, t + 2, {" "})
        b == OperandShape(buf, c, TRUE)
    IN  IF a.ok /\ Get(buf, t) = "t" /\ Get(buf, t + 1) = "o" /\ b.ok
        THEN [ok |-> TRUE, end |-> b.end,
              token |-> FormulaToken("ToRange", Slice(buf, p, b.end), 0, <<>>, <<>>, <<>>,
                                     OperandValue(buf, p, a), OperandValue(buf, c, b))]
        ELSE [ok |-> FALSE, end |-> 0, token |-> <<>>]

RECURSIVE ItemsShape(_, _, _)
\* the items `a..b` or `e` of a range set from p on, up to its closing bracket
ItemsShape(buf, p, acc) ==
    LET a == IntegerShape(buf, p, TRUE)
        pair == a.ok /\ Get(buf, a.end) = "." /\ Get(buf, a.end + 1) = "."
        b == IF pair THEN IntegerShape(buf, a.end + 2, TRUE) ELSE a
        ranges == Append(acc, <<a.int, b.int>>)
    IN  IF ~a.ok \/ ~b.ok THEN [ok |-> FALSE, end |-> 0, ranges |-> <<>>]
        ELSE IF Get(buf, b.end) = "]" THEN [ok |-> TRUE, end |-> b.end + 1, ranges |-> ranges]
        ELSE IF Get(buf, b.end) = ";" THEN ItemsShape(buf, b.end + 1, ranges)
        ELSE [ok |-> FALSE, end |-> 0, ranges |-> <<>>]

\* a bracketed range-set literal standing at p
RangeShape(buf, p) ==
    IF Get(buf, p) = "[" THEN ItemsShape(buf, p + 1, <<>>)
    ELSE [ok |-> FALSE, end |-> 0, ranges |-> <<>>]

Dispatching == pc = "f_scan" /\ pos < Len(buffer)

\* C3: Formula::parse ends in Ok(Formula) or in Err(FormulaError) with a byte
\* position inside the input and one of the four reasons; it never aborts by
\* reading past the end of the input.
C3_OkOrPositionedError ==
    /\ pc \in {"f_scan", "f_ok", "f_err"}
    /\ pc = "f_err" =>
           /\ error.position \in 0..Len(buffer)
           /\ error.kind \in {"UnexpectedToken", "ExpectedInteger", "ExpectedDouble",
                              "UnexpectedEOF"}

\* C8: at a bracketed range-set literal the scan pushes exactly one Range
\* token holding one interval per item, in source order: a..=b for a pair,
\* e..=e for a single integer, wherever the item stands.
C8_RangeHoldsEveryItem ==
    [][(Dispatching /\ RangeShape(buffer, pos).ok) =>
           LET shape == RangeShape(buffer, pos)
           IN  /\ pc' = "f_scan"
               /\ pos' = shape.end
               /\ tokens' = Append(tokens,
                                   FormulaToken("Range", Slice(buffer, pos, shape.end), 0,
                                                <<>>, <<>>, shape.ranges, <<>>, <<>>))]_vars

\* C10: at a digit or at `[`, operand, optional spaces, `to`, optional spaces
\* and operand are pushed as one ToRange token holding both operands, whose
\* value is the source span; the plain number or parameter is not read first.
C10_ToRangeFirst ==
    [][(Dispatching /\ buffer[pos + 1] \in Digits \cup {"["}
          /\ ToRangeShape(buffer, pos).ok) =>
           LET shape == ToRangeShape(buffer, pos)
           IN  /\ pc' = "f_scan"
               /\ pos' = shape.end
               /\ tokens' = Append(tokens, shape.token)]_vars

\* C10's case: `[p0] to 1 * 2 to [p1]` scanned to its end
C10_Witness ==
    /\ pc = "f_ok"
    /\ buffer = <<"[", "p", "0", "]", " ", "t", "o", " ", "1", " ", "*", " ", "2", " ",
                  "t", "o", " ", "[", "p", "1", "]">>
    /\ Len(tokens) = 3
    /\ tokens[1].kind = "ToRange"
    /\ tokens[1].start = [kind |-> "Parameter", index |-> <<0, 0, 0, 0>>, value |-> 0]
    /\ tokens[1].end = [kind |-> "Integer", index |-> <<>>, value |-> 1]
    /\ tokens[2].kind = "Multiply"
    /\ tokens[3].kind = "ToRange"
    /\ tokens[3].start = [kind |-> "Integer", index |-> <<>>, value |-> 2]
    /\ tokens[3].end = [kind |-> "Parameter", index |-> <<0, 0, 0, 1>>, value |-> 0]


RECURSIVE LiteralEnd(_, _)
\* where the digits and single decimal points standing at p end; two points
\* in a row are the range operator and end them
LiteralEnd(buf, p) ==
    IF Get(buf, p) \in Digits THEN LiteralEnd(buf, p + 1)
    ELSE IF Get(buf, p) = "." /\ Get(buf, p + 1) # "." THEN LiteralEnd(buf, p + 1)
    ELSE p

\* the `-` at p and the numeric literal right after it: digits with at most
\* one decimal point among them. The token is the one signed number; `second`
\* is the position of a second decimal point (-1: none).
SignedShape(buf, p) ==
    LET e == LiteralEnd(buf, p + 1)
        body == Slice(buf, p + 1, e)
        points == {i \in 1..Len(body) : body[i] = "."}
        digits == SelectSeq(body, LAMBDA ch : ch \in Digits)
        dot == CHOOSE i \in points : \A j \in points : i <= j
        second == CHOOSE i \in points \ {dot} : \A j \in points \ {dot} : i <= j
    IN  IF Cardinality(points) > 1
        THEN [ok |-> FALSE, end |-> 0, token |-> <<>>, second |-> p + second]
        ELSE IF digits = <<>>
        THEN [ok |-> FALSE, end |-> 0, token |-> <<>>, second |-> -1]
        ELSE IF points = {}
        THEN [ok |-> TRUE, end |-> e, second |-> -1,
              token |-> FormulaToken("Integer", Slice(buf, p, e), -DecimalValue(body),
                                     <<>>, <<>>, <<>>, <<>>, <<>>)]
        ELSE [ok |-> TRUE, end |-> e, second |-> -1,
              token |-> FormulaToken("Double", Slice(buf, p, e), 0,
                                     <<-DecimalValue(digits), Len(body) - dot>>,
                                     <<>>, <<>>, <<>>, <<>>)]

\* the step C11 describes: the signed number or the Substract token pushed
MinusStep(shape) ==
    /\ pc' = "f_scan"
    /\ tokens' = Append(tokens, IF shape.ok THEN shape.token
                                ELSE SimpleToken("Substract", <<"-">>))
    /\ pos' = IF shape.ok THEN shape.end ELSE pos + 1

\* C11 as stated: at a `-` the scan pushes one signed Integer or Double token
\* when a valid numeric literal follows at once, wherever the `-` stands, and
\* moves past the literal; otherwise it pushes a Substract token and moves by
\* one.
C11_AsStated ==
    [][(Dispatching /\ buffer[pos + 1] = "-") => MinusStep(SignedShape(buffer, pos))]_vars

\* C11: at a `-` the scan pushes one signed Integer or Double token when a
\* valid numeric literal follows at once, wherever the `-` stands, and moves
\* past the literal; otherwise it pushes a Substract token and moves by one,
\* unless the digits and decimal points after the `-` hold a second decimal
\* point: then the parse fails with UnexpectedToken at that point.
C11_MinusFoldsIntoNumber ==
    [][(Dispatching /\ buffer[pos + 1] = "-") =>
           LET shape == SignedShape(buffer, pos)
           IN  IF shape.second = -1 THEN MinusStep(shape)
               ELSE /\ pc' = "f_err"
                    /\ error' = FormulaError(shape.second, "UnexpectedToken", ".", <<>>)]_vars

\* C11's case: `2-3` scanned to its end is Integer 2 and Integer -3
C11_Witness ==
    /\ pc = "f_ok"
    /\ buffer = <<"2", "-", "3">>
    /\ Len(tokens) = 2
    /\ tokens[1].kind = "Integer" /\ tokens[1].int = 2
    /\ tokens[2].kind = "Integer" /\ tokens[2].int = -3 /\ tokens[2].value = <<"-", "3">>

\* the keyword each of the five letters starts, and its token kind
Keywords ==
    [d |-> [word |-> <<"d", "i", "v">>, kind |-> "DivideWithRemain"],
     m |-> [word |-> <<"m", "o", "d">>, kind |-> "Modulo"],
     a |-> [word |-> <<"a", "n", "d">>, kind |-> "And"],
     o |-> [word |-> <<"o", "r">>, kind |-> "Or"],
     i |-> [word |-> <<"i", "n">>, kind |-> "In"]]

\* C12: at one of the letters d, m, a, o, i the scan pushes one keyword token
\* and moves by the keyword's length when the characters there spell the
\* keyword, whatever follows it; otherwise the parse fails with
\* UnexpectedToken{found: the letter, expected: the keyword} at the letter's
\* position and returns no tokens.
C12_LettersStartKeywords ==
    [][(Dispatching /\ buffer[pos + 1] \in DOMAIN Keywords) =>
           LET k == Keywords[buffer[pos + 1]]
           IN  IF GetIs(buffer, pos, pos + Len(k.word) - 1, k.word)
               THEN /\ pc' = "f_scan"
                    /\ tokens' = Append(tokens, SimpleToken(k.kind, k.word))
                    /\ pos' = pos + Len(k.word)
               ELSE /\ pc' = "f_err"
                    /\ error' = FormulaError(pos, "UnexpectedToken", buffer[pos + 1], k.word)
                    /\ tokens' = <<>>]_vars

\* C12's case: `divmod` scanned to its end is DivideWithRemain and Modulo
C12_Witness ==
    /\ pc = "f_ok"
    /\ buffer = <<"d", "i", "v", "m", "o", "d">>
    /\ tokens = <<SimpleToken("DivideWithRemain", <<"d", "i", "v">>),
                  SimpleToken("Modulo", <<"m", "o", "d">>)>>

\* the comparison tokens of two characters and of one
TwoCharComparisons ==
    { [value |-> <<">", "=">>, kind |-> "GreaterOrEqual"],
      [value |-> <<"<", "=">>, kind |-> "LesserOrEqual"],
      [value |-> <<"<", ">">>, kind |-> "NotEqual"],
      [value |-> <<"=", "=">>, kind |-> "Equal"] }

OneCharComparisons ==
    { [value |-> <<">">>, kind |-> "Greater"],
      [value |-> <<"<">>, kind |-> "Lesser"],
      [value |-> <<"=">>, kind |-> "Assignment"] }

\* the comparison standing at p: the two-character one when there is one
LongestComparison(buf, p) ==
    LET two == {c \in TwoCharComparisons : GetIs(buf, p, p + 1, c.value)}
    IN  IF two # {} THEN CHOOSE c \in two : TRUE
        ELSE CHOOSE c \in OneCharComparisons : c.value = <<buf[p + 1]>>

\* C19: at `>`, `<` or `=` the scan pushes the longest comparison token of at
\* most two characters standing there (>=, <=, <>, ==, else the lone >, <, =
\* as Greater, Lesser, Assignment) and moves by exactly its length.
C19_LongestComparison ==
    [][(Dispatching /\ buffer[pos + 1] \in {">", "<", "="}) =>
           LET c == LongestComparison(buffer, pos)
           IN  /\ pc' = "f_scan"
               /\ tokens' = Append(tokens, SimpleToken(c.kind, c.value))
               /\ pos' = pos + Len(c.value)]_vars

\* C19's case: `<>=` scanned to its end is NotEqual and Assignment
C19_Witness ==
    /\ pc = "f_ok"
    /\ buffer = <<"<", ">", "=">>
    /\ tokens = <<SimpleToken("NotEqual", <<"<", ">">>), SimpleToken("Assignment", <<"=">>)>>

\* a string with none of the characters the markup scanner dispatches on
PlainText(s) == Range(s) \cap {"<", "{", "[", "\n", "\r"} = {}

\* C13 as stated: FormattedText::parse of any string holding none of `<`, `{`,
\* `[`, `\n`, `\r` returns exactly one Text element whose value is the input.
C13_AsStated ==
    (pc = "done" /\ PlainText(buffer)) =>
        elements = <<TextElement("Text", buffer, <<>>, <<>>, 0)>>

\* C13: FormattedText::parse of any non-empty string holding none of `<`, `{`,
\* `[`, `\n`, `\r` returns exactly one Text element whose value is the input;
\* of the empty string it returns no element.
C13_PlainTextIsOneElement ==
    (pc = "done" /\ PlainText(buffer)) =>
        elements = IF buffer = <<>> THEN <<>>
                   ELSE <<TextElement("Text", buffer, <<>>, <<>>, 0)>>

\* C13's case: a parse of three plain characters or more that returned
C13_Witness ==
    /\ pc = "done"
    /\ PlainText(buffer)
    /\ Len(buffer) >= 3
    /\ Len(elements) = 1
    /\ elements[1].value = buffer

----------------------------------------------------------------------------
(* The quest decoder: src/qmm-syntax/src/qmm *)

\* Result<T, ParsingError> of a decoder that read up to `pos`; the tags other
\* than Ok and Err are the ways a call does not return: Panic (an unwinding
\* panic), Hang (a loop never ends) and HugeAlloc (Vec storage of 2^31
\* elements or more was requested, which the allocator may refuse)
Parsed(p, v) == [tag |-> "Ok", pos |-> p, val |-> v, err |-> <<>>]
Failed(e) == [tag |-> "Err", pos |-> 0, val |-> <<>>, err |-> e]
Stopped(how) == [tag |-> how, pos |-> 0, val |-> <<>>, err |-> <<>>]

\* types.rs 333-346: ParsingError; reason, error and formula are the payloads
ParsingError(kind, reason, ferror, formula) ==
    [kind |-> kind, reason |-> reason, error |-> ferror, formula |-> formula]

Incomplete == ParsingError("Incomplete", "", <<>>, <<>>)
ExpectedEnd == ParsingError("ExpectedEnd", "", <<>>, <<>>)
InvalidBool == ParsingError("InvalidBool", "", <<>>, <<>>)
InvalidString == ParsingError("InvalidString", "", <<>>, <<>>)
Invalid(kind, reason) == ParsingError(kind, reason, <<>>, <<>>)

\* the `?` operator: the rest of the function runs on an Ok
Then(r, F(_, _)) == IF r.tag = "Ok" THEN F(r.pos, r.val) ELSE r

\* map and map_err(|_| e) of a Result
MapOk(r, F(_)) == IF r.tag = "Ok" THEN Parsed(r.pos, F(r.val)) ELSE r

\* Cursor::read_exact: the n bytes at the position, or the error of a short
\* read; a position past the end leaves nothing to read
read_exact(buf, p, n) ==
    IF p + n > Len(buf) THEN Failed(Incomplete) ELSE Parsed(p + n, Slice(buf, p, p + n))

\* i32::from_be_bytes: the first byte is the highest
i32_from_be_bytes(b) ==
    (IF b[1] >= 128 THEN b[1] - 256 ELSE b[1]) * 16777216 + b[2] * 65536 + b[3] * 256 + b[4]

\* i32::from_le_bytes
i32_from_le_bytes(b) ==
    (IF b[4] >= 128 THEN b[4] - 256 ELSE b[4]) * 16777216 + b[3] * 65536 + b[2] * 256 + b[1]

\* `as u32` of an i32, as two 16-bit limbs <<high, low>>
AsU32(n) ==
    IF n >= 0 THEN <<n \div 65536, n % 65536>>
    ELSE LET m == n - I32_MIN IN <<32768 + (m \div 65536), m % 65536>>

\* iter < count for a count held in limbs; iter is below 2^16 (it never
\* exceeds the length of the buffer)
LessThanLimbs(iter, count) ==
    \/ \E i \in 1..(Len(count) - 1) : count[i] # 0
    \/ iter < count[Len(count)]

PrimitiveParser_parse_i32(buf, p) == MapOk(read_exact(buf, p, 4), i32_from_le_bytes)

\* the f64 is kept as its eight bytes
PrimitiveParser_parse_f64(buf, p) == read_exact(buf, p, 8)

bool_of_byte(p, b) ==
    IF b[1] = 0 THEN Parsed(p, FALSE)
    ELSE IF b[1] = 1 THEN Parsed(p, TRUE)
    ELSE Failed(InvalidBool)

PrimitiveParser_parse_bool(buf, p) == Then(read_exact(buf, p, 1), bool_of_byte)

first_byte(b) == b[1]

PrimitiveParser_parse_byte(buf, p) == MapOk(read_exact(buf, p, 1), first_byte)

\* the characters of the codes 32..126 (the grave accent by its number)
PrintableAscii == <<
    " ", "!", "\"", "#", "$", "%", "&", "'", "(", ")", "*", "+", ",", "-", ".", "/",
    "0", "1", "2", "3", "4", "5", "6", "7", "8", "9", ":", ";", "<", "=", ">", "?",
    "@", "A", "B", "C", "D", "E", "F", "G", "H", "I", "J", "K", "L", "M", "N", "O",
    "P", "Q", "R", "S", "T", "U", "V", "W", "X", "Y", "Z", "[", "\\", "]", "^", "_",
    "96", "a", "b", "c", "d", "e", "f", "g", "h", "i", "j", "k", "l", "m", "n", "o",
    "p", "q", "r", "s", "t", "u", "v", "w", "x", "y", "z", "{", "|", "}", "~" >>

\* one byte of a String: the character of an ASCII byte the scanners look
\* for, and the number of any other byte
Utf8Byte(b) ==
    IF b >= 32 /\ b <= 126 THEN PrintableAscii[b - 31]
    ELSE IF b = 10 THEN "\n"
    ELSE IF b = 13 THEN "\r"
    ELSE ToString(b)

\* the UTF-8 bytes of a scalar value below 2^16
Utf8OfUnit(u) ==
    IF u < 128 THEN <<Utf8Byte(u)>>
    ELSE IF u < 2048 THEN <<Utf8Byte(192 + (u \div 64)), Utf8Byte(128 + (u % 64))>>
    ELSE <<Utf8Byte(224 + (u \div 4096)), Utf8Byte(128 + ((u \div 64) % 64)),
           Utf8Byte(128 + (u % 64))>>

\* the UTF-8 bytes of the scalar value of a surrogate pair
Utf8OfPair(hi, lo) ==
    LET c == 65536 + (hi - 55296) * 1024 + (lo - 56320)
    IN  <<Utf8Byte(240 + (c \div 262144)), Utf8Byte(128 + ((c \div 4096) % 64)),
          Utf8Byte(128 + ((c \div 64) % 64)), Utf8Byte(128 + (c % 64))>>

HighSurrogates == 55296..56319
LowSurrogates == 56320..57343

RECURSIVE from_utf16(_, _, _)
\* String::from_utf16 of the code units from index i on: the bytes of the
\* String, or InvalidString for an unpaired surrogate
from_utf16(units, i, acc) ==
    IF i > Len(units) THEN [ok |-> TRUE, string |-> acc]
    ELSE IF units[i] \in HighSurrogates
         THEN IF i < Len(units) /\ units[i + 1] \in LowSurrogates
              THEN from_utf16(units, i + 2, acc \o Utf8OfPair(units[i], units[i + 1]))
              ELSE [ok |-> FALSE, string |-> <<>>]
    ELSE IF units[i] \in LowSurrogates THEN [ok |-> FALSE, string |-> <<>>]
    ELSE from_utf16(units, i + 1, acc \o Utf8OfUnit(units[i]))

\* bytemuck::try_cast_slice::<u8, u16>: the little-endian code units (the
\* Vec<u8> of the global allocator is aligned for u16 and its length is even)
try_cast_slice(bytes) ==
    [i \in 1..(Len(bytes) \div 2) |-> bytes[2 * i - 1] + 256 * bytes[2 * i]]

\* string_parser.rs 35-42: the bytes read, decoded
decode_string(p, bytes) ==
    LET s == from_utf16(try_cast_slice(bytes), 1, <<>>)
    IN  IF s.ok THEN Parsed(p, s.string) ELSE Failed(InvalidString)

\* string_parser.rs 21-42: the length and the text of a string that is there.
\* The length is u32 * 2 as usize; vec![0; n] for a u32 with its top bit set
\* asks for 4 GiB or more
string_body(buf, p, len_bytes) ==
    IF len_bytes[4] >= 128 THEN Stopped("HugeAlloc")
    ELSE IF i32_from_le_bytes(len_bytes) = 0 THEN Parsed(p, <<>>)
    ELSE IF i32_from_le_bytes(len_bytes) > Len(buf) THEN Failed(Incomplete)
    ELSE Then(read_exact(buf, p, 2 * i32_from_le_bytes(len_bytes)), decode_string)

\* string_parser.rs 9-25: the flag read; a zero flag is the empty string
string_flagged(buf, p, has_string) ==
    IF has_string = <<0, 0, 0, 0>> THEN Parsed(p, <<>>)
    ELSE Then(read_exact(buf, p, 4), LAMBDA q, len_bytes : string_body(buf, q, len_bytes))

\* a decoder that takes a flag cut off by the end for that of no string
StringParser_parse_lenient(buf, p) ==
    IF p + 4 > Len(buf) THEN Parsed(p, <<>>)
    ELSE Then(read_exact(buf, p, 4), LAMBDA q, has_string : string_flagged(buf, q, has_string))

\* string_parser.rs 8-43
StringParser_parse(buf, p) ==
    Then(read_exact(buf, p, 4), LAMBDA q, has_string : string_flagged(buf, q, has_string))

\* types.rs 15-25: Version::try_from
Version_try_from(b) ==
    IF b = <<214, 53, 58, 66>> THEN "Qmm6"
    ELSE IF b = <<215, 53, 58, 66>> THEN "Qmm7"
    ELSE "Err"

\* header_parser.rs 62-73: the block that, when present, follows the magic
QMM7_BLOCK == <<1, 0, 0, 0, 0, 0, 0, 0, 0, 0, 0, 0>>

\* a probe that keeps the 12 bytes whatever they are
HeaderParser_parse_version_no_rewind(buf, p) ==
    Then(read_exact(buf, p, 4), LAMBDA old_pos, version_bytes :
      IF Version_try_from(version_bytes) = "Err"
      THEN Failed(Invalid("InvalidHeader", "InvalidMagic"))
      ELSE Then(read_exact(buf, old_pos, 12), LAMBDA q, empty_bytes :
             Parsed(q, Version_try_from(version_bytes))))

\* header_parser.rs 44-76
HeaderParser_parse_version(buf, p) ==
    Then(read_exact(buf, p, 4), LAMBDA old_pos, version_bytes :
      IF Version_try_from(version_bytes) = "Err"
      THEN Failed(Invalid("InvalidHeader", "InvalidMagic"))
      ELSE Then(read_exact(buf, old_pos, 12), LAMBDA q, empty_bytes :
             Parsed(IF empty_bytes # QMM7_BLOCK THEN old_pos ELSE q,
                    Version_try_from(version_bytes))))

\* bitflags from_bits: no bit outside the defined flags, which are the low
\* bits that make up `all`
from_bits(value, all) ==
    IF value <= all THEN [ok |-> TRUE, bits |-> value] ELSE [ok |-> FALSE, bits |-> 0]

\* types.rs 27-44: Race, flags 0x01..0x10
Race_try_from(value) == from_bits(value, 1 + 2 + 4 + 8 + 16)

\* types.rs 72-87: PlayerStatus, flags 0x01..0x04
PlayerStatus_try_from(value) == from_bits(value, 1 + 2 + 4)

\* a byte read and converted, or the header error named
header_byte(buf, p, Convert(_), reason) ==
    Then(PrimitiveParser_parse_byte(buf, p), LAMBDA q, value :
      IF Convert(value).ok THEN Parsed(q, Convert(value).bits)
      ELSE Failed(Invalid("InvalidHeader", reason)))

\* header_parser.rs 78-81
HeaderParser_parse_quest_giver_race(buf, p) ==
    header_byte(buf, p, Race_try_from, "InvalidQuestGiverRace")

\* types.rs 52-64: CompletionCondition::try_from
CompletionCondition_try_from(value) ==
    IF value = 0 THEN [ok |-> TRUE, bits |-> "AfterReturning"]
    ELSE IF value = 1 THEN [ok |-> TRUE, bits |-> "Immediately"]
    ELSE [ok |-> FALSE, bits |-> ""]

\* header_parser.rs 83-88
HeaderParser_parse_completion_condition(buf, p) ==
    header_byte(buf, p, CompletionCondition_try_from, "InvalidCompletionCondition")

\* header_parser.rs 90-99: 0x40 is Uninhabited, else Populated(race)
PlanetType_of(value) ==
    IF value = 64 THEN [ok |-> TRUE, bits |-> [kind |-> "Uninhabited", race |-> 0]]
    ELSE [ok |-> Race_try_from(value).ok,
          bits |-> [kind |-> "Populated", race |-> Race_try_from(value).bits]]

HeaderParser_parse_quest_planet_type(buf, p) ==
    header_byte(buf, p, PlanetType_of, "InvalidQuestPlanetType")

\* header_parser.rs 101-104
HeaderParser_parse_player_status(buf, p) ==
    header_byte(buf, p, PlayerStatus_try_from, "InvalidPlayerStatus")

\* header_parser.rs 106-109
HeaderParser_parse_player_race(buf, p) ==
    header_byte(buf, p, Race_try_from, "InvalidPlayerRace")

\* `as i8` of a byte
AsI8(b) == IF b >= 128 THEN b - 256 ELSE b

\* -value of an i8: -(-128) overflows, a panic where overflow is checked and
\* -128 where it wraps
NegI8(p, value, overflow_checks) ==
    IF value # -128 THEN Parsed(p, -value)
    ELSE IF overflow_checks THEN Stopped("Panic")
    ELSE Parsed(p, -128)

\* a decoder that takes the first byte as it is, whatever follows it
HeaderParser_parse_relation_change_unsigned(buf, p, overflow_checks) ==
    Then(read_exact(buf, p, 4), LAMBDA q, b :
      IF Tail(b) = <<255, 255, 255>> \/ Tail(b) = <<0, 0, 0>> THEN Parsed(q, AsI8(b[1]))
      ELSE Failed(Invalid("InvalidHeader", "InvalidRelationChange")))

\* header_parser.rs 111-127
HeaderParser_parse_relation_change(buf, p, overflow_checks) ==
    Then(read_exact(buf, p, 4), LAMBDA q, b :
      IF Tail(b) = <<255, 255, 255>> THEN NegI8(q, AsI8(b[1]), overflow_checks)
      ELSE IF Tail(b) = <<0, 0, 0>> THEN Parsed(q, AsI8(b[1]))
      ELSE Failed(Invalid("InvalidHeader", "InvalidRelationChange")))

\* MaxVisits and JumpsLimit: 0 is Infinite, else Limit(value as u32)
LimitOf(value) ==
    IF value = 0 THEN [kind |-> "Infinite", limit |-> <<0, 0>>]
    ELSE [kind |-> "Limit", limit |-> AsU32(value)]

\* header_parser.rs 129-137
HeaderParser_parse_jumps_limit(buf, p) ==
    MapOk(PrimitiveParser_parse_i32(buf, p), LimitOf)

\* header_parser.rs 11-42; overflow_checks is the build's setting
HeaderParser_parse(buf, p, overflow_checks) ==
    Then(HeaderParser_parse_version(buf, p), LAMBDA p1, version :
    Then(HeaderParser_parse_quest_giver_race(buf, p1), LAMBDA p2, giver_race :
    Then(HeaderParser_parse_completion_condition(buf, p2), LAMBDA p3, completion_condition :
    Then(HeaderParser_parse_quest_planet_type(buf, p3), LAMBDA p4, quest_planet_type :
    Then(HeaderParser_parse_player_status(buf, p4), LAMBDA p5, player_status :
    Then(HeaderParser_parse_player_race(buf, p5), LAMBDA p6, player_race :
    Then(HeaderParser_parse_relation_change(buf, p6, overflow_checks), LAMBDA p7, relation_change :
    Then(PrimitiveParser_parse_i32(buf, p7), LAMBDA s1, screen_width :
    Then(PrimitiveParser_parse_i32(buf, s1), LAMBDA s2, screen_height :
    Then(PrimitiveParser_parse_i32(buf, s2), LAMBDA s3, grid_width :
    Then(PrimitiveParser_parse_i32(buf, s3), LAMBDA p8, grid_height :
    Then(HeaderParser_parse_jumps_limit(buf, p8), LAMBDA p9, default_jumps_limit :
    Then(PrimitiveParser_parse_i32(buf, p9), LAMBDA p10, difficult :
    Then(PrimitiveParser_parse_i32(buf, p10), LAMBDA p11, parameters_count :
      Parsed(p11, [version |-> version,
                   giver_race |-> giver_race,
                   completion_condition |-> completion_condition,
                   quest_planet_type |-> quest_planet_type,
                   player_status |-> player_status,
                   player_race |-> player_race,
                   relation_change |-> relation_change,
                   default_jumps_limit |-> default_jumps_limit,
                   difficult |-> AsU32(difficult),
                   parameters_count |-> AsUsize(parameters_count)])))))))))))))))

\* formatted_text.rs 92-160: what stands at p: the element recognized there,
\* or NoElement
element_at(buf, p) ==
    CASE buf[p + 1] = "<" -> try_parse_lt(buf, p)
      [] buf[p + 1] = "{" -> try_parse_formula(buf, p)
      [] buf[p + 1] = "\n" -> NewLineLF
      [] buf[p + 1] = "\r" -> IF Get(buf, p + 1) = "\n" THEN NewLineCRLF ELSE NoElement
      [] buf[p + 1] = "[" -> FormattedText_try_parse_parameter(buf, p)
      [] OTHER -> NoElement

RECURSIVE FormattedText_parse_loop(_, _, _, _)
\* formatted_text.rs 92-164 as one call: the elements, or Hang where the
\* b'\r' branch repeats on the same position
FormattedText_parse_found(buf, p, last, els, el) ==
    IF el = NoElement
    THEN IF buf[p + 1] = "\r" THEN [tag |-> "Hang", elements |-> <<>>]
         ELSE FormattedText_parse_loop(buf, p + 1, last, els)
    ELSE FormattedText_parse_loop(
             buf, p + Len(el.value) + (IF buf[p + 1] = "\r" THEN 0 ELSE 1),
             p + Len(el.value), Append(push_text_from_prev_el(last, p, buf, els), el))

FormattedText_parse_loop(buf, p, last, els) ==
    IF p >= Len(buf)
    THEN [tag |-> "Ok", elements |-> push_text_from_prev_el(last, p, buf, els)]
    ELSE FormattedText_parse_found(buf, p, last, els, element_at(buf, p))

\* formatted_text.rs 66-165
FormattedText_parse(text) ==
    IF text = <<>> THEN [tag |-> "Ok", elements |-> <<>>]
    ELSE FormattedText_parse_loop(text, 0, 0, <<>>)

\* formula.rs 134-305: the token, the error or the panic of the branch taken
\* at p; None at a space
token_at(buf, p) ==
    CASE buf[p + 1] \in {"(", ")", "+", "*", "/"} ->
             SomeOk(SimpleToken(SingleKind(buf[p + 1]), <<buf[p + 1]>>))
      [] buf[p + 1] = "-" ->
             OrElseToken(try_parse_number(buf, p), SomeOk(SimpleToken("Substract", <<"-">>)))
      [] buf[p + 1] \in {"d", "m", "a", "o", "i"} ->
             IF try_parse_word(KeywordOf(buf[p + 1]).word, buf, p)
             THEN SomeOk(SimpleToken(KeywordOf(buf[p + 1]).kind, KeywordOf(buf[p + 1]).word))
             ELSE SomeErr(FormulaError(p, "UnexpectedToken", buf[p + 1],
                                       KeywordOf(buf[p + 1]).word))
      [] buf[p + 1] \in {">", "<", "="} -> SomeOk(CompareToken(buf, p))
      [] buf[p + 1] \in Digits -> OrElseToken(digit_token(buf, p), SomeErr(ExpectedInteger(p)))
      [] buf[p + 1] = "[" ->
             OrElseToken(bracket_token(buf, p),
                         SomeErr(FormulaError(p, "UnexpectedToken", "[", <<>>)))
      [] buf[p + 1] = " " -> None
      [] OTHER -> SomeErr(FormulaError(p, "UnexpectedToken", buf[p + 1], <<>>))

RECURSIVE Formula_parse_loop(_, _, _)
\* formula.rs 134-310 as one call
Formula_parse_found(buf, p, toks, r) ==
    IF r.tag = "None" THEN Formula_parse_loop(buf, p + 1, toks)
    ELSE IF r.tag = "Ok"
         THEN Formula_parse_loop(buf, p + Len(r.token.value), Append(toks, r.token))
    ELSE [tag |-> r.tag, tokens |-> <<>>, error |-> r.error]

Formula_parse_loop(buf, p, toks) ==
    IF p >= Len(buf) THEN [tag |-> "Ok", tokens |-> toks, error |-> <<>>]
    ELSE Formula_parse_found(buf, p, toks, token_at(buf, p))

\* formula.rs 108-311
Formula_parse(text) == Formula_parse_loop(text, 0, <<>>)

\* the FormattedText of a call that returned
text_result(p, parsed) ==
    IF parsed.tag = "Hang" THEN Stopped("Hang") ELSE Parsed(p, parsed.elements)

\* FormattedText::parse(&StringParser::parse(cursor)?)
text_of(p, string) == text_result(p, FormattedText_parse(string))

parse_text(buf, p) == Then(StringParser_parse(buf, p), text_of)

\* map_err(|err| InvalidFormula { error: err, formula: text })
formula_result(p, string, parsed) ==
    IF parsed.tag = "Ok" THEN Parsed(p, parsed.tokens)
    ELSE IF parsed.tag = "Err"
         THEN Failed(ParsingError("InvalidFormula", "", parsed.error, string))
    ELSE Stopped("Panic")

\* Formula::parse(&text).map_err(...)?
formula_of(p, string) == formula_result(p, string, Formula_parse(string))

parse_formula(buf, p) == Then(StringParser_parse(buf, p), formula_of)

RECURSIVE repeat(_, _, _, _, _)
\* while iter < count { items.push(Parser(cursor)?); iter += 1 }, count an i32
repeat(Parser(_, _), buf, p, n, items) ==
    IF n <= 0 THEN Parsed(p, items)
    ELSE Then(Parser(buf, p), LAMBDA q, item :
           repeat(Parser, buf, q, n - 1, Append(items, item)))

\* Vec::with_capacity(count as usize) and the loop up to count. A negative
\* i32 as usize is 2^64 - |count| elements, more than isize::MAX bytes for any
\* element: the capacity overflow panic
with_capacity_repeat(Parser(_, _), buf, p, count) ==
    IF count < 0 THEN Stopped("Panic") ELSE repeat(Parser, buf, p, count, <<>>)

\* media_parser.rs 8-19
MediaParser_parse(buf, p) ==
    Then(StringParser_parse(buf, p), LAMBDA p1, image :
    Then(StringParser_parse(buf, p1), LAMBDA p2, sound :
    Then(StringParser_parse(buf, p2), LAMBDA p3, track :
      Parsed(p3, [image |-> image, sound |-> sound, track |-> track]))))

\* a conversion that takes an unknown byte for the first variant
enum_byte_defaulted(buf, p, count, kind, reason) ==
    Then(PrimitiveParser_parse_byte(buf, p), LAMBDA q, value :
      IF value < count THEN Parsed(q, value) ELSE Parsed(q, 0))

\* a byte read and converted to one of the `count` variants 0..count-1
enum_byte(buf, p, count, kind, reason) ==
    Then(PrimitiveParser_parse_byte(buf, p), LAMBDA q, value :
      IF value < count THEN Parsed(q, value) ELSE Failed(Invalid(kind, reason)))

\* parameter_change_parser.rs 13-42
ParameterChangeParser_parse(buf, p) ==
    Then(PrimitiveParser_parse_i32(buf, p), LAMBDA p1, parameter_id :
    Then(PrimitiveParser_parse_i32(buf, p1), LAMBDA p2, skipped :
    Then(enum_byte(buf, p2, 3, "InvalidParameterChange", "InvalidShowType"),
         LAMBDA p3, show_type :
    Then(enum_byte(buf, p3, 4, "InvalidParameterChange", "InvalidChangeType"),
         LAMBDA p4, change_type :
    Then(parse_formula(buf, p4), LAMBDA p5, formula :
    Then(StringParser_parse(buf, p5), LAMBDA p6, critical_text :
    Then(MediaParser_parse(buf, p6), LAMBDA p7, media :
      Parsed(p7, [parameter_id |-> AsU32(parameter_id), show_type |-> show_type,
                  change_type |-> change_type, formula |-> formula,
                  critical_text |-> critical_text, media |-> media]))))))))

\* a push that loses the item
push_dropped(items, item) == items

\* Vec::push
push(items, item) == Append(items, item)

\* jump_parameter_condition_parser.rs 8-41
JumpParameterConditionParser_parse(buf, p) ==
    Then(PrimitiveParser_parse_i32(buf, p), LAMBDA p1, parameter_id :
    Then(PrimitiveParser_parse_i32(buf, p1), LAMBDA p2, range_start :
    Then(PrimitiveParser_parse_i32(buf, p2), LAMBDA p3, range_end :
    Then(PrimitiveParser_parse_i32(buf, p3), LAMBDA p4, must_equal_values_count :
    Then(PrimitiveParser_parse_bool(buf, p4), LAMBDA p5, must_equal :
    Then(with_capacity_repeat(PrimitiveParser_parse_i32, buf, p5, must_equal_values_count),
         LAMBDA p6, must_equal_values :
    Then(PrimitiveParser_parse_i32(buf, p6), LAMBDA p7, must_mod_values_count :
    Then(PrimitiveParser_parse_bool(buf, p7), LAMBDA p8, must_mod :
    Then(with_capacity_repeat(PrimitiveParser_parse_i32, buf, p8, must_mod_values_count),
         LAMBDA p9, must_mod_values :
      Parsed(p9, [parameter_id |-> AsU32(parameter_id), range_start |-> range_start,
                  range_end |-> range_end, must_equal |-> must_equal,
                  must_equal_values |-> must_equal_values, must_mod |-> must_mod,
                  must_mod_values |-> must_mod_values]))))))))))

\* parameter_parser.rs 80-86: one FormattedRangeLine
FormattedRangeLine_parse(buf, p) ==
    Then(PrimitiveParser_parse_i32(buf, p), LAMBDA p1, from :
    Then(PrimitiveParser_parse_i32(buf, p1), LAMBDA p2, to :
    Then(StringParser_parse(buf, p2), LAMBDA p3, value :
      Parsed(p3, [from |-> from, to |-> to, value |-> value]))))

\* parameter_parser.rs 73-91: count is the i32 read `as usize`
ParameterParser_parse_formatted_range_lines(buf, p, count) ==
    with_capacity_repeat(FormattedRangeLine_parse, buf, p, count)

\* parameter_parser.rs 58-61
ParameterParser_parse_type(buf, p) ==
    enum_byte(buf, p, 4, "InvalidParameter", "InvalidType")

\* parameter_parser.rs 63-71: 0 is Max, 1 is Min
ParameterParser_parse_critical_value(buf, p) ==
    enum_byte(buf, p, 2, "InvalidParameter", "InvalidCriticalValue")

\* Cursor::seek(SeekFrom::Current(n)): the position moves, past the end too
seek_current(p, n) == Parsed(p + n, <<>>)

\* parameter_parser.rs 17-56
ParameterParser_parse(buf, p) ==
    Then(PrimitiveParser_parse_i32(buf, p), LAMBDA p1, min_value :
    Then(PrimitiveParser_parse_i32(buf, p1), LAMBDA p2, max_value :
    Then(ParameterParser_parse_type(buf, p2), LAMBDA p3, ty :
    Then(seek_current(p3, 3), LAMBDA p4, skipped :
    Then(PrimitiveParser_parse_bool(buf, p4), LAMBDA p5, show_when_zero :
    Then(ParameterParser_parse_critical_value(buf, p5), LAMBDA p6, critical_value :
    Then(PrimitiveParser_parse_bool(buf, p6), LAMBDA p7, is_active :
    Then(PrimitiveParser_parse_i32(buf, p7), LAMBDA p8, formatted_lines_count :
    Then(PrimitiveParser_parse_bool(buf, p8), LAMBDA p9, is_money :
    Then(StringParser_parse(buf, p9), LAMBDA p10, name :
    Then(ParameterParser_parse_formatted_range_lines(buf, p10, formatted_lines_count),
         LAMBDA p11, formatted_range_lines :
    Then(StringParser_parse(buf, p11), LAMBDA p12, critical_text :
    Then(StringParser_parse(buf, p12), LAMBDA p13, image :
    Then(StringParser_parse(buf, p13), LAMBDA p14, sound :
    Then(StringParser_parse(buf, p14), LAMBDA p15, track :
    Then(StringParser_parse(buf, p15), LAMBDA p16, starting_value :
      Parsed(p16, [min_value |-> min_value, max_value |-> max_value, ty |-> ty,
                   show_when_zero |-> show_when_zero, critical_value |-> critical_value,
                   is_active |-> is_active, is_money |-> is_money, name |-> name,
                   formatted_range_lines |-> formatted_range_lines,
                   critical_text |-> critical_text, image |-> image, sound |-> sound,
                   track |-> track, starting_value |-> starting_value])))))))))))))))))

\* string_replacements_parser.rs 7-28
StringReplacementsParser_parse(buf, p) ==
    Then(StringParser_parse(buf, p), LAMBDA p1, to_star :
    Then(StringParser_parse(buf, p1), LAMBDA p2, to_planet :
    Then(StringParser_parse(buf, p2), LAMBDA p3, date :
    Then(StringParser_parse(buf, p3), LAMBDA p4, money :
    Then(StringParser_parse(buf, p4), LAMBDA p5, from_planet :
    Then(StringParser_parse(buf, p5), LAMBDA p6, from_star :
    Then(StringParser_parse(buf, p6), LAMBDA p7, ranger :
      Parsed(p7, [to_star |-> to_star, to_planet |-> to_planet,
                  from_planet |-> from_planet, from_star |-> from_star,
                  ranger |-> ranger]))))))))

\* info_parser.rs 10-23
InfoParser_parse(buf, p) ==
    Then(PrimitiveParser_parse_i32(buf, p), LAMBDA p1, locations_count :
    Then(PrimitiveParser_parse_i32(buf, p1), LAMBDA p2, jumps_count :
    Then(parse_text(buf, p2), LAMBDA p3, success_text :
    Then(parse_text(buf, p3), LAMBDA p4, task_text :
      Parsed(p4, [locations_count |-> AsU32(locations_count),
                  jumps_count |-> AsU32(jumps_count),
                  success_text |-> success_text, task_text |-> task_text])))))

RECURSIVE location_texts_doubled(_, _, _, _, _)
\* a loop that pushes each text twice
location_texts_doubled(buf, p, n, texts, media) ==
    IF n <= 0 THEN Parsed(p, [texts |-> texts, media |-> media])
    ELSE Then(parse_text(buf, p), LAMBDA p1, text :
         Then(MediaParser_parse(buf, p1), LAMBDA p2, item :
           location_texts_doubled(buf, p2, n - 1, push(push(texts, text), text),
                                  push(media, item))))

RECURSIVE location_texts_loop(_, _, _, _, _)
\* location_parser.rs 44-49: an iteration pushes a text and then its media,
\* n iterations to go
location_texts_loop(buf, p, n, texts, media) ==
    IF n <= 0 THEN Parsed(p, [texts |-> texts, media |-> media])
    ELSE Then(parse_text(buf, p), LAMBDA p1, text :
         Then(MediaParser_parse(buf, p1), LAMBDA p2, item :
           location_texts_loop(buf, p2, n - 1, push(texts, text), push(media, item))))

\* location_parser.rs 39-49: the two Vec::with_capacity(count as usize), which
\* panic on a negative count, and the loop
location_texts(buf, p, count) ==
    IF count < 0 THEN Stopped("Panic") ELSE location_texts_loop(buf, p, count, <<>>, <<>>)

\* a selection formula scanned whatever the flag
LocationSelectType_scanned(p, select_type, select_formula) ==
    IF Formula_parse(select_formula).tag # "Ok" \/ select_type
    THEN MapOk(formula_of(p, select_formula),
               LAMBDA formula : [kind |-> "ByFormula", formula |-> formula])
    ELSE Parsed(p, [kind |-> "ByOrder", formula |-> <<>>])

\* location_parser.rs 53-64: the formula is scanned only when the flag is set
LocationSelectType_of(p, select_type, select_formula) ==
    IF ~select_type THEN Parsed(p, [kind |-> "ByOrder", formula |-> <<>>])
    ELSE MapOk(formula_of(p, select_formula),
               LAMBDA formula : [kind |-> "ByFormula", formula |-> formula])

\* location_parser.rs 13-76
LocationParser_parse(buf, p) ==
    Then(PrimitiveParser_parse_i32(buf, p), LAMBDA p1, do_pass_day :
    Then(PrimitiveParser_parse_i32(buf, p1), LAMBDA p2, x :
    Then(PrimitiveParser_parse_i32(buf, p2), LAMBDA p3, y :
    Then(PrimitiveParser_parse_i32(buf, p3), LAMBDA p4, id :
    Then(PrimitiveParser_parse_i32(buf, p4), LAMBDA p5, max_visits :
    Then(enum_byte(buf, p5, 6, "InvalidLocation", "InvalidLocationType"), LAMBDA p6, ty :
    Then(PrimitiveParser_parse_i32(buf, p6), LAMBDA p7, parameters_changes_count :
    Then(with_capacity_repeat(ParameterChangeParser_parse, buf, p7, parameters_changes_count),
         LAMBDA p8, parameter_changes :
    Then(PrimitiveParser_parse_i32(buf, p8), LAMBDA p9, location_texts_count :
    Then(location_texts(buf, p9, location_texts_count), LAMBDA p10, variants :
    Then(PrimitiveParser_parse_bool(buf, p10), LAMBDA p11, select_type :
    Then(StringParser_parse(buf, p11), LAMBDA p12, select_formula :
    Then(LocationSelectType_of(p12, select_type, select_formula), LAMBDA p13, select :
      Parsed(p13, [do_pass_day |-> do_pass_day > 0, id |-> AsU32(id),
                   max_visits |-> LimitOf(max_visits), ty |-> ty,
                   parameter_changes |-> parameter_changes,
                   texts |-> variants.texts, media |-> variants.media,
                   select_type |-> select]))))))))))))))

\* jump_parser.rs 13-73
JumpParser_parse(buf, p) ==
    Then(PrimitiveParser_parse_f64(buf, p), LAMBDA p1, priority :
    Then(PrimitiveParser_parse_i32(buf, p1), LAMBDA p2, do_pass_day :
    Then(PrimitiveParser_parse_i32(buf, p2), LAMBDA p3, id :
    Then(PrimitiveParser_parse_i32(buf, p3), LAMBDA p4, from :
    Then(PrimitiveParser_parse_i32(buf, p4), LAMBDA p5, to :
    Then(PrimitiveParser_parse_bool(buf, p5), LAMBDA p6, show_always :
    Then(PrimitiveParser_parse_i32(buf, p6), LAMBDA p7, max_visits :
    Then(PrimitiveParser_parse_i32(buf, p7), LAMBDA p8, show_order :
    Then(PrimitiveParser_parse_i32(buf, p8), LAMBDA p9, jump_parameters_conditions_count :
    Then(with_capacity_repeat(JumpParameterConditionParser_parse, buf, p9,
                              jump_parameters_conditions_count),
         LAMBDA p10, parameters_conditions :
    Then(PrimitiveParser_parse_i32(buf, p10), LAMBDA p11, parameters_changes_count :
    Then(with_capacity_repeat(ParameterChangeParser_parse, buf, p11, parameters_changes_count),
         LAMBDA p12, parameter_changes :
    Then(parse_formula(buf, p12), LAMBDA p13, formula :
    Then(parse_text(buf, p13), LAMBDA p14, text :
    Then(parse_text(buf, p14), LAMBDA p15, description :
    Then(MediaParser_parse(buf, p15), LAMBDA p16, media :
      Parsed(p16, [priority |-> priority, do_pass_day |-> do_pass_day > 0,
                   id |-> AsU32(id), from |-> AsU32(from), to |-> AsU32(to),
                   show_always |-> show_always, max_visits |-> LimitOf(max_visits),
                   show_order |-> AsU32(show_order),
                   parameters_conditions |-> parameters_conditions,
                   parameter_changes |-> parameter_changes, formula |-> formula,
                   text |-> text, description |-> description,
                   media |-> media])))))))))))))))))

----------------------------------------------------------------------------
(* The buffers the decoder is run on *)

\* the byte appended to a buffer that decoded
ExtraBytes == {0, 1, 255}

LE16(u) == <<u % 256, u \div 256>>

\* i32::to_le_bytes
LE32(n) == LE16(AsU32(n)[2]) \o LE16(AsU32(n)[1])

\* a string as the format stores it: the empty one as a zero flag
EncString(units) ==
    IF units = <<>> THEN <<0, 0, 0, 0>>
    ELSE LE32(1) \o LE32(Len(units)) \o Flatten([i \in 1..Len(units) |-> LE16(units[i])])

RECURSIVE Repeated(_, _)
Repeated(n, bytes) == IF n <= 0 THEN <<>> ELSE bytes \o Repeated(n - 1, bytes)

\* the count field written for `actual` records: the one field a description
\* names as bad is negative or one too large
Count(d, field, actual) ==
    IF d.bad # field THEN actual
    ELSE IF d.how = "negative" THEN -1
    ELSE actual + 1

\* a rich quest has one of everything that is optional and all its strings
Sub(d) == IF d.rich THEN 1 ELSE 0

\* "m"
NameUnits(d) == IF d.rich THEN <<109>> ELSE <<>>

\* "a", a line feed and a Cyrillic letter; or a lone carriage return
TextUnits(d) ==
    IF ~d.rich THEN <<>>
    ELSE IF d.strings = "lone_cr" THEN <<13>>
    ELSE <<97, 10, 1044>>

\* "1"; or "[", or "x"
FormulaUnits(d) ==
    IF ~d.rich THEN <<>>
    ELSE IF d.strings = "open_bracket" THEN <<91>>
    ELSE IF d.strings = "bad_formula" THEN <<120>>
    ELSE <<49>>

\* "1 x": a text the formula scanner refuses at its third character
MalformedFormula == <<49, 32, 120>>

\* the text of the formula field `field`: malformed in the one field a
\* description names as bad
FormulaUnitsAt(d, field) == IF d.bad = field THEN MalformedFormula ELSE FormulaUnits(d)

\* types.rs 238-250: the byte of a change kind
ChangeKinds == <<"Value", "Sum", "Percentage", "Formula">>

\* the change kind written in the record of the field `field`: the kind the
\* description asks for where the record's formula is the bad field
ChangeTypeByte(d, field) ==
    IF d.bad = field
    THEN (CHOOSE k \in 1..Len(ChangeKinds) : ChangeKinds[k] = d.how) - 1
    ELSE 0

\* the selection flag of a location
SelectFlag(d) == IF d.bad = "select_formula" /\ d.how = "off" THEN 0 ELSE Sub(d)

EncMedia(d) == Repeated(3, EncString(NameUnits(d)))

EncParameterChange(d, field) ==
    LE32(1) \o LE32(0) \o <<1, ChangeTypeByte(d, field)>>
    \o EncString(FormulaUnitsAt(d, field)) \o EncString(NameUnits(d))
    \o EncMedia(d)

EncCondition(d) ==
    LE32(1) \o LE32(0) \o LE32(9)
    \o LE32(Count(d, "must_equal_values", Sub(d))) \o <<1>> \o Repeated(Sub(d), LE32(3))
    \o LE32(Sub(d)) \o <<0>> \o Repeated(Sub(d), LE32(2))

EncLine(d) == LE32(0) \o LE32(9) \o EncString(NameUnits(d))

EncParameter(d) ==
    LE32(0) \o LE32(9) \o <<3>> \o <<0, 0, 0>> \o <<1, 1, 1>>
    \o LE32(Count(d, "formatted_lines", Sub(d))) \o <<0>> \o EncString(NameUnits(d))
    \o Repeated(Sub(d), EncLine(d)) \o Repeated(5, EncString(NameUnits(d)))

EncLocation(d) ==
    LE32(1) \o LE32(10) \o LE32(20) \o LE32(1) \o LE32(0) \o <<1>>
    \o LE32(Count(d, "parameter_changes", Sub(d))) \o Repeated(Sub(d), EncParameterChange(d, "location_change_formula"))
    \o LE32(Count(d, "location_texts", Sub(d)))
    \o Repeated(Sub(d), EncString(TextUnits(d)) \o EncMedia(d))
    \o <<SelectFlag(d)>> \o EncString(FormulaUnitsAt(d, "select_formula"))

EncJump(d) ==
    <<0, 0, 0, 0, 0, 0, 240, 63>> \o LE32(0) \o LE32(1) \o LE32(1) \o LE32(1) \o <<1>>
    \o LE32(2) \o LE32(0)
    \o LE32(Count(d, "parameters_conditions", Sub(d))) \o Repeated(Sub(d), EncCondition(d))
    \o LE32(Sub(d)) \o Repeated(Sub(d), EncParameterChange(d, "jump_change_formula"))
    \o EncString(FormulaUnitsAt(d, "jump_formula")) \o EncString(TextUnits(d)) \o EncString(TextUnits(d))
    \o EncMedia(d)

\* a rich quest is a Qmm7 one with the block after the magic and a negated
\* relation change
EncHeader(d) ==
    (IF d.rich THEN <<215, 53, 58, 66>> \o QMM7_BLOCK ELSE <<214, 53, 58, 66>>)
    \o <<16, 1, 2, 7, 31>>
    \o (IF d.bad = "relation_change" THEN <<128, 255, 255, 255>>
        ELSE IF d.rich THEN <<5, 255, 255, 255>>
        ELSE <<5, 0, 0, 0>>)
    \o Repeated(4, LE32(0)) \o LE32(1) \o LE32(70)
    \o LE32(Count(d, "parameters", d.parameters))

EncInfo(d) ==
    LE32(Count(d, "locations", d.locations)) \o LE32(Count(d, "jumps", d.jumps))
    \o EncString(TextUnits(d)) \o EncString(TextUnits(d))

Encode(d) ==
    EncHeader(d) \o Repeated(d.parameters, EncParameter(d))
    \o Repeated(7, EncString(NameUnits(d))) \o EncInfo(d)
    \o Repeated(d.locations, EncLocation(d)) \o Repeated(d.jumps, EncJump(d))

Described(rich, np, nl, nj, bad, how, strings) ==
    [rich |-> rich, parameters |-> np, locations |-> nl, jumps |-> nj,
     bad |-> bad, how |-> how, strings |-> strings]

\* well-formed quests
SoundQuests ==
    {Described(rich, np, nl, nj, "none", "", "plain") :
        rich \in BOOLEAN, np \in 0..MaxRecords, nl \in 0..MaxRecords, nj \in 0..MaxRecords}

CountFields ==
    {"parameters", "formatted_lines", "locations", "jumps", "parameter_changes",
     "location_texts", "parameters_conditions", "must_equal_values"}

\* a rich quest with one count negative or one too large, with the relation
\* change -(-128), or with a text or a formula a scanner does not take
DamagedQuests ==
    {Described(TRUE, 1, 1, 1, field, how, "plain") :
        field \in CountFields, how \in {"negative", "oversized"}}
    \cup {Described(TRUE, 1, 1, 1, "relation_change", "", "plain")}
    \cup {Described(TRUE, 1, 1, 1, "none", "", strings) :
            strings \in {"lone_cr", "open_bracket", "bad_formula"}}

\* a rich quest with one malformed formula text: in the parameter-change
\* record of the location or of the jump, of each change kind; in the
\* selection formula of the location, its flag on or off; in the jump's formula
MalformedFormulaQuests ==
    {Described(TRUE, 1, 1, 1, field, ChangeKinds[k], "plain") :
        field \in {"location_change_formula", "jump_change_formula"},
        k \in 1..Len(ChangeKinds)}
    \cup {Described(TRUE, 1, 1, 1, "select_formula", how, "plain") : how \in {"on", "off"}}
    \cup {Described(TRUE, 1, 1, 1, "jump_formula", "", "plain")}

\* the builds: overflow checks on (the dev profile) or off (the release one)
Builds == [overflow_checks : BOOLEAN]

\* the calls made. The overflow checks bear on one expression of the decoder,
\* the negated relation change, which no sound quest overflows: the damaged
\* quests are decoded by both builds, the sound ones by the release build
QmmRuns ==
    {[data |-> Encode(d), build |-> b] : d \in DamagedQuests, b \in Builds}
    \cup {[data |-> Encode(d), build |-> [overflow_checks |-> FALSE]] :
             d \in SoundQuests \cup MalformedFormulaQuests}

\* the scanners stand still
ScannersIdle ==
    /\ buffer = <<>>
    /\ pos = 0
    /\ last_el_pos = 0
    /\ elements = <<>>
    /\ iters = 0
    /\ tokens = <<>>
    /\ error = <<>>

\* the call ends without a Quest: the error is returned, or the thread panics,
\* or the process aborts, or the call never returns
Finish(r) ==
    /\ \/ r.tag = "Err" /\ pc' = "q_err" /\ outcome' = r.err
       \/ r.tag = "Panic" /\ pc' = "q_panic" /\ outcome' = <<>>
       \/ r.tag = "Hang" /\ pc' = "q_hang" /\ outcome' = <<>>
       \/ r.tag = "HugeAlloc" /\ pc' = "q_abort" /\ outcome' = <<>>
       \/ r.tag = "HugeAlloc" /\ pc' = "q_err" /\ outcome' = Incomplete
    /\ quest' = NoQuest
    /\ UNCHANGED <<cursor, loop_iter>>

\* Vec::with_capacity(n) of a usize in limbs: 2^63 elements and more are over
\* isize::MAX bytes whatever the element
CapacityOverflow(n) == n[1] >= 32768

\* Vec::with_capacity(n as usize) of a u32 in limbs: its top bit set
HugeCapacity(n) == n[1] >= 32768

\* parser.rs 13-15: the header, then the parameters' Vec
DecodeHeader ==
    /\ pc = "q_header"
    /\ LET r == HeaderParser_parse(data, cursor, build.overflow_checks)
       IN  IF r.tag # "Ok" THEN Finish(r)
           ELSE IF CapacityOverflow(r.val.parameters_count) THEN Finish(Stopped("Panic"))
           ELSE /\ pc' = "q_parameters"
                /\ cursor' = r.pos
                /\ quest' = [quest EXCEPT !.header = r.val]
                /\ loop_iter' = 0
                /\ UNCHANGED outcome
    /\ UNCHANGED <<data, origin, build, scannerVars>>

\* parser.rs 17-21: one iteration of the parameters loop
DecodeParameter ==
    /\ pc = "q_parameters"
    /\ LessThanLimbs(loop_iter, quest.header.parameters_count)
    /\ LET r == ParameterParser_parse(data, cursor)
       IN  IF r.tag # "Ok" THEN Finish(r)
           ELSE /\ cursor' = r.pos
                /\ quest' = [quest EXCEPT !.parameters = push(@, r.val)]
                /\ loop_iter' = loop_iter + 1
                /\ UNCHANGED <<pc, outcome>>
    /\ UNCHANGED <<data, origin, build, scannerVars>>

\* parser.rs 23: after the parameters loop
DecodeStringReplacements ==
    /\ pc = "q_parameters"
    /\ ~LessThanLimbs(loop_iter, quest.header.parameters_count)
    /\ LET r == StringReplacementsParser_parse(data, cursor)
       IN  IF r.tag # "Ok" THEN Finish(r)
           ELSE /\ pc' = "q_info"
                /\ cursor' = r.pos
                /\ quest' = [quest EXCEPT !.string_replacements = r.val]
                /\ UNCHANGED <<loop_iter, outcome>>
    /\ UNCHANGED <<data, origin, build, scannerVars>>

\* a Vec of a u32 count is made and its loop entered at `stage`
EnterLoop(stage, count) ==
    \/ /\ pc' = stage
       /\ loop_iter' = 0
       /\ UNCHANGED outcome
    \/ /\ HugeCapacity(count)
       /\ pc' = "q_abort"
       /\ loop_iter' = 0
       /\ UNCHANGED outcome

\* parser.rs 24-26: the info block, then the locations' Vec
DecodeInfo ==
    /\ pc = "q_info"
    /\ LET r == InfoParser_parse(data, cursor)
       IN  IF r.tag # "Ok" THEN Finish(r)
           ELSE /\ cursor' = r.pos
                /\ quest' = [quest EXCEPT !.info = r.val]
                /\ EnterLoop("q_locations", r.val.locations_count)
    /\ UNCHANGED <<data, origin, build, scannerVars>>

\* parser.rs 28-31: one iteration of the locations loop
DecodeLocation ==
    /\ pc = "q_locations"
    /\ LessThanLimbs(loop_iter, quest.info.locations_count)
    /\ LET r == LocationParser_parse(data, cursor)
       IN  IF r.tag # "Ok" THEN Finish(r)
           ELSE /\ cursor' = r.pos
                /\ quest' = [quest EXCEPT !.locations = push(@, r.val)]
                /\ loop_iter' = loop_iter + 1
                /\ UNCHANGED <<pc, outcome>>
    /\ UNCHANGED <<data, origin, build, scannerVars>>

\* parser.rs 33-34: after the locations loop, the jumps' Vec
AllocateJumps ==
    /\ pc = "q_locations"
    /\ ~LessThanLimbs(loop_iter, quest.info.locations_count)
    /\ EnterLoop("q_jumps", quest.info.jumps_count)
    /\ UNCHANGED <<data, cursor, quest, origin, build, scannerVars>>

\* parser.rs 36-39: one iteration of the jumps loop
DecodeJump ==
    /\ pc = "q_jumps"
    /\ LessThanLimbs(loop_iter, quest.info.jumps_count)
    /\ LET r == JumpParser_parse(data, cursor)
       IN  IF r.tag # "Ok" THEN Finish(r)
           ELSE /\ cursor' = r.pos
                /\ quest' = [quest EXCEPT !.jumps = push(@, r.val)]
                /\ loop_iter' = loop_iter + 1
                /\ UNCHANGED <<pc, outcome>>
    /\ UNCHANGED <<data, origin, build, scannerVars>>

\* parser.rs 41-52: the end check and the Quest
DecodeEnd ==
    /\ pc = "q_jumps"
    /\ ~LessThanLimbs(loop_iter, quest.info.jumps_count)
    /\ IF cursor # Len(data) THEN Finish(Failed(ExpectedEnd))
       ELSE /\ pc' = "q_ok"
            /\ UNCHANGED <<cursor, quest, loop_iter, outcome>>
    /\ UNCHANGED <<data, origin, build, scannerVars>>

\* parse_qmm is called on `input`
Call(input, how) ==
    /\ pc' = "q_header"
    /\ data' = input
    /\ cursor' = 0
    /\ quest' = NoQuest
    /\ loop_iter' = 0
    /\ outcome' = <<>>
    /\ origin' = how
    /\ UNCHANGED <<build, scannerVars>>

\* a buffer that decoded is decoded again with trailing bytes removed
CallTruncated ==
    /\ pc = "q_ok" /\ origin = "given"
    /\ \E n \in 0..(Len(data) - 1) : Call(SubSeq(data, 1, n), "truncated")

\* a buffer that decoded is decoded again with one byte appended
CallExtended ==
    /\ pc = "q_ok" /\ origin = "given"
    /\ \E byte \in ExtraBytes : Call(Append(data, byte), "extended")

NextQmm ==
    \/ DecodeHeader
    \/ DecodeParameter
    \/ DecodeStringReplacements
    \/ DecodeInfo
    \/ DecodeLocation
    \/ AllocateJumps
    \/ DecodeJump
    \/ DecodeEnd
    \/ CallTruncated
    \/ CallExtended

InitQmm ==
    /\ pc = "q_header"
    /\ \E run \in QmmRuns : data = run.data /\ build = run.build
    /\ cursor = 0
    /\ quest = NoQuest
    /\ loop_iter = 0
    /\ outcome = <<>>
    /\ origin = "given"
    /\ ScannersIdle

SpecQmm == InitQmm /\ [][NextQmm]_vars

----------------------------------------------------------------------------
(* Properties of the quest decoder *)

\* C4: every call of parse_qmm ends by returning a Quest or one ParsingError,
\* whatever the buffer and its count fields: no call panics, aborts the
\* process or fails to return.
C4_ReturnsQuestOrError == pc \notin {"q_panic", "q_abort", "q_hang"}

\* a call of parse_qmm is over
Returned == pc \in {"q_ok", "q_err", "q_panic", "q_abort", "q_hang"}

\* C5: a successful decode ends with the cursor at the length of the buffer;
\* the same buffer with one byte appended decodes to Err(ExpectedEnd), and
\* with trailing bytes removed to Err(Incomplete).
C5_ConsumesExactly ==
    /\ pc = "q_ok" => cursor = Len(data)
    /\ Returned /\ origin = "extended" => pc = "q_err" /\ outcome = ExpectedEnd
    /\ Returned /\ origin = "truncated" => pc = "q_err" /\ outcome = Incomplete

\* a buffer cut inside its records has been refused as Incomplete, the
\* records before the cut decoded
C5_Witness ==
    /\ pc = "q_err"
    /\ origin = "truncated"
    /\ outcome = Incomplete
    /\ cursor > 0

\* C6: a Quest returned holds as many parameters, locations and jumps as the
\* header and the info block declare.
C6_CountsMatch ==
    pc = "q_ok" =>
        /\ AsUsize(Len(quest.parameters)) = quest.header.parameters_count
        /\ AsU32(Len(quest.locations)) = quest.info.locations_count
        /\ AsU32(Len(quest.jumps)) = quest.info.jumps_count

\* a Quest with a parameter, a location and a jump has been returned
C6_Witness ==
    /\ pc = "q_ok"
    /\ quest.header.parameters_count = AsUsize(1)
    /\ Len(quest.parameters) = 1
    /\ Len(quest.locations) = 1
    /\ Len(quest.jumps) = 1

----------------------------------------------------------------------------
(* The decoders of the parts of a quest, each called on its own *)

\* the number of bytes that stand before the bytes a decoder is called on
MaxPad == 1

\* the number of 4-byte words of a buffer of plain bytes
MaxWords == 3

\* the number of UTF-16 code units of a generated string
MaxUnits == 2

Pads(n) == {Repeated(k, <<7>>) : k \in 0..n}

Damage(bytes, i, v) == [bytes EXCEPT ![i] = v]

\* values a tag byte is set to: the variants, the flags, and bytes beside them
TagBytes == {0, 1, 2, 3, 4, 5, 6, 7, 8, 31, 32, 64, 65, 128, 214, 215, 255}

Words == { <<0, 0, 0, 0>>, <<1, 0, 0, 0>>, <<2, 1, 0, 0>>, <<0, 0, 0, 128>>,
           <<255, 255, 255, 255>>, <<1, 2, 3, 4>> }

\* plain bytes: up to n words, and every buffer cut short of them
ByteInputs(n) == UNION {Prefixes(w) : w \in Concats(Words, n)}

\* "a", a Cyrillic letter, a high and a low surrogate
CodeUnits == {97, 1044, 55357, 56832}

RECURSIVE UnitStrings(_)
UnitStrings(n) ==
    IF n = 0 THEN {<<>>}
    ELSE UnitStrings(n - 1) \cup {Append(s, u) : s \in UnitStrings(n - 1), u \in CodeUnits}

\* strings as stored, with flags and counts that fit the text and that do
\* not, a byte after them or none, and every buffer cut short of them
StringInputs(n) ==
    UNION {Prefixes(flag \o count \o Flatten([i \in 1..Len(units) |-> LE16(units[i])]) \o tail) :
               flag \in {<<0, 0, 0, 0>>, <<1, 0, 0, 0>>, <<0, 0, 1, 0>>, <<255, 255, 255, 255>>},
               count \in {LE32(0), LE32(1), LE32(2), LE32(3), LE32(-1), <<0, 0, 0, 128>>},
               units \in UnitStrings(n),
               tail \in {<<>>, <<9>>}}

PlainQuest == Described(FALSE, 0, 0, 0, "none", "", "plain")
RichQuest == Described(TRUE, 1, 1, 1, "none", "", "plain")

\* headers without and with the block after the magic: whole, cut short, and
\* with one byte of the magic, the block or the tags set to another value
HeaderInputs ==
    UNION {Prefixes(EncHeader(d)) : d \in {PlainQuest, RichQuest}}
    \cup {Damage(EncHeader(d), i, v) : d \in {PlainQuest, RichQuest}, i \in 1..21, v \in TagBytes}

\* the relation-change field: every first byte, trailing bytes of 00, 01, FF
RelationInputs ==
    UNION {Prefixes(<<b, t1, t2, t3>>) :
               b \in 0..255, t1 \in {0, 1, 255}, t2 \in {0, 1, 255}, t3 \in {0, 1, 255}}

\* a parameter with its type byte or its critical-value byte set
ParameterInputs ==
    {Damage(EncParameter(RichQuest), i, v) : i \in {9, 14}, v \in TagBytes}

\* a location with its type byte or a tag byte of its parameter change set
LocationInputs ==
    {Damage(EncLocation(RichQuest), i, v) : i \in {21, 34, 35}, v \in TagBytes}

\* the decoder of `part` is about to be called on `inputs`, behind a pad
InitParsersOn(part, inputs, pads, builds) ==
    /\ pc = "p_ready"
    /\ \E pad \in pads, input \in inputs : data = pad \o input /\ cursor = Len(pad)
    /\ build \in builds
    /\ origin = part
    /\ quest = NoQuest
    /\ loop_iter = 0
    /\ outcome = <<>>
    /\ ScannersIdle

Release == {[overflow_checks |-> FALSE]}

InitParsers ==
    \/ InitParsersOn("bytes", ByteInputs(MaxWords), Pads(MaxPad), Release)
    \/ InitParsersOn("string", StringInputs(MaxUnits), Pads(MaxPad), Release)
    \/ InitParsersOn("header", HeaderInputs, Pads(0), Release)
    \/ InitParsersOn("relation", RelationInputs, Pads(0), Builds)
    \/ InitParsersOn("parameter", ParameterInputs, Pads(0), Release)
    \/ InitParsersOn("location", LocationInputs, Pads(0), Release)

\* the call has ended with r: the cursor stands where an Ok left it (after an
\* error the caller does not look at it again). Storage of 4 GiB or more is
\* refused, and the process aborts, or granted, and the read comes up short
Ended(stage, r) ==
    /\ pc = "p_ready"
    /\ pc' = stage
    /\ \/ outcome' = r
       \/ r.tag = "HugeAlloc" /\ outcome' = Failed(Incomplete)
    /\ cursor' = IF r.tag = "Ok" THEN r.pos ELSE cursor
    /\ UNCHANGED <<data, quest, loop_iter, origin, build, scannerVars>>

CallParseI32 ==
    /\ origin = "bytes"
    /\ LET r == PrimitiveParser_parse_i32(data, cursor) IN Ended("p_i32", r)

CallParseF64 ==
    /\ origin = "bytes"
    /\ LET r == PrimitiveParser_parse_f64(data, cursor) IN Ended("p_f64", r)

CallParseByte ==
    /\ origin = "bytes"
    /\ LET r == PrimitiveParser_parse_byte(data, cursor) IN Ended("p_byte", r)

CallParseBool ==
    /\ origin = "bytes"
    /\ LET r == PrimitiveParser_parse_bool(data, cursor) IN Ended("p_bool", r)

CallStringParser ==
    /\ origin = "string"
    /\ LET r == StringParser_parse(data, cursor) IN Ended("p_string", r)

CallParseVersion ==
    /\ origin = "header"
    /\ LET r == HeaderParser_parse_version(data, cursor) IN Ended("p_version", r)

CallHeaderParser ==
    /\ origin = "header"
    /\ LET r == HeaderParser_parse(data, cursor, build.overflow_checks)
       IN  Ended("p_header", r)

CallParseRelationChange ==
    /\ origin = "relation"
    /\ LET r == HeaderParser_parse_relation_change(data, cursor, build.overflow_checks)
       IN  Ended("p_relation", r)

CallParameterParser ==
    /\ origin = "parameter"
    /\ LET r == ParameterParser_parse(data, cursor) IN Ended("p_parameter", r)

CallLocationParser ==
    /\ origin = "location"
    /\ LET r == LocationParser_parse(data, cursor) IN Ended("p_location", r)

NextParsers ==
    \/ CallParseI32
    \/ CallParseF64
    \/ CallParseByte
    \/ CallParseBool
    \/ CallStringParser
    \/ CallParseVersion
    \/ CallHeaderParser
    \/ CallParseRelationChange
    \/ CallParameterParser
    \/ CallLocationParser

SpecParsers == InitParsers /\ [][NextParsers]_vars

----------------------------------------------------------------------------
(* Properties of the decoders of the parts *)

\* the n bytes the cursor stands before, and whether they are there
Ahead(n) == Slice(data, cursor, cursor + n)
Remain == Len(data) - cursor

\* a call of a fixed-width decoder ends as C18 says: Incomplete when fewer
\* than `width` bytes remain, else Ok(value) with the cursor `width` further
FixedWidth(width, value) ==
    IF Remain < width THEN outcome' = Failed(Incomplete)
    ELSE outcome' = Parsed(cursor + width, value) /\ cursor' = cursor + width

\* the i32 whose little-endian bytes are b: b[1] is the lowest byte
LittleEndianI32(b) ==
    b[1] + 256 * b[2] + 65536 * b[3] + 16777216 * (IF b[4] >= 128 THEN b[4] - 256 ELSE b[4])

\* C18: parse_i32, parse_f64, parse_byte and parse_bool fail with Incomplete
\* when fewer than 4, 8, 1, 1 bytes remain; else they move the cursor by
\* exactly that many bytes and return the little-endian value of the bytes,
\* but that parse_bool returns false for 0, true for 1 and InvalidBool for
\* every other byte.
C18_PrimitivesFixedWidth ==
    [][/\ pc' = "p_i32" => FixedWidth(4, IF Remain < 4 THEN 0 ELSE LittleEndianI32(Ahead(4)))
       /\ pc' = "p_f64" => FixedWidth(8, IF Remain < 8 THEN <<>> ELSE Ahead(8))
       /\ pc' = "p_byte" => FixedWidth(1, IF Remain < 1 THEN 0 ELSE data[cursor + 1])
       /\ pc' = "p_bool" =>
              IF Remain >= 1 /\ data[cursor + 1] \notin {0, 1}
              THEN outcome' = Failed(InvalidBool)
              ELSE FixedWidth(1, Remain >= 1 /\ data[cursor + 1] = 1)]_vars

\* C18's case: parse_i32 called behind a pad on 02 01 00 00 returned 258
C18_Witness ==
    /\ pc = "p_i32"
    /\ cursor = 5
    /\ SubSeq(data, 1, 5) = <<7, 2, 1, 0, 0>>
    /\ outcome = Parsed(5, 258)

\* the count of a stored string says more code units than the bytes left
\* after it hold (a count with its top bit set always does)
CountOverruns(count_bytes, left) ==
    count_bytes[4] >= 128 \/ 2 * LittleEndianI32(count_bytes) > left

\* the text of the code units stored in `bytes`, or InvalidString when they
\* are not UTF-16
DecodedText(p, bytes) ==
    LET s == from_utf16([i \in 1..(Len(bytes) \div 2) |-> bytes[2 * i - 1] + 256 * bytes[2 * i]],
                        1, <<>>)
    IN  IF s.ok THEN Parsed(p, s.string) ELSE Failed(InvalidString)

\* C17: StringParser::parse reads a 4-byte flag and for a zero flag returns
\* the empty string with the cursor 4 bytes further; else it reads a 4-byte
\* count n and returns the text decoded from the next 2n bytes with the cursor
\* 8 + 2n bytes further (the empty string after 8 bytes for n = 0); when fewer
\* bytes remain than one of these reads asks for, the result is Incomplete.
C17_StringLayout ==
    [][pc' = "p_string" =>
           IF Remain < 4 THEN outcome' = Failed(Incomplete)
           ELSE IF Ahead(4) = <<0, 0, 0, 0>>
           THEN outcome' = Parsed(cursor + 4, <<>>) /\ cursor' = cursor + 4
           ELSE IF Remain < 8 THEN outcome' = Failed(Incomplete)
           ELSE LET count_bytes == Slice(data, cursor + 4, cursor + 8)
                    n == LittleEndianI32(count_bytes)
                IN  IF CountOverruns(count_bytes, Remain - 8) THEN outcome' = Failed(Incomplete)
                    ELSE /\ outcome' = DecodedText(cursor + 8 + 2 * n,
                                                   Slice(data, cursor + 8, cursor + 8 + 2 * n))
                         /\ outcome'.tag = "Ok" => cursor' = cursor + 8 + 2 * n]_vars

ValidMagic(b) == b = <<214, 53, 58, 66>> \/ b = <<215, 53, 58, 66>>

\* the block 01 00 00 00 00 00 00 00 00 00 00 00 stands right after the magic
BlockPresent == Slice(data, 4, 16) = <<1>> \o Repeated(11, <<0>>)

\* C14: after a valid magic the next 12 bytes are read: when they are 01 and
\* eleven 00 the block is consumed and the next header field is read from
\* offset 16; when they are any other 12 bytes the cursor stands at offset 4
\* again and the next field is read from there.
C14_VersionProbe ==
    [][(Len(data) >= 16 /\ ValidMagic(SubSeq(data, 1, 4))) =>
           LET next == IF BlockPresent THEN 16 ELSE 4
           IN  /\ pc' = "p_version" => outcome'.tag = "Ok" /\ cursor' = next
               /\ (pc' = "p_header" /\ outcome'.tag = "Ok") =>
                      /\ outcome'.val.giver_race = data[next + 1]
                      /\ cursor' = next + 37]_vars

\* C14's case: a header whose block has one byte changed was decoded, its
\* first field taken from offset 4
C14_Witness ==
    /\ pc = "p_header"
    /\ outcome.tag = "Ok"
    /\ Len(data) = 53
    /\ SubSeq(data, 5, 8) = <<1, 0, 0, 0>>
    /\ ~BlockPresent
    /\ outcome.val.giver_race = 1
    /\ cursor = 41

\* C15: of the 4 bytes [b, t1, t2, t3] of the relation change, [b, FF, FF, FF]
\* is minus b and [b, 00, 00, 00] is b for b in 0..127; any other three
\* trailing bytes are InvalidHeader(InvalidRelationChange).
C15_RelationChange ==
    [][(pc' = "p_relation" /\ Remain >= 4) =>
           LET b == data[cursor + 1]
               trailing == Slice(data, cursor + 1, cursor + 4)
           IN  /\ (trailing = <<255, 255, 255>> /\ b <= 127) =>
                      outcome' = Parsed(cursor + 4, -b)
               /\ (trailing = <<0, 0, 0>> /\ b <= 127) =>
                      outcome' = Parsed(cursor + 4, b)
               /\ trailing \notin {<<255, 255, 255>>, <<0, 0, 0>>} =>
                      outcome' = Failed(Invalid("InvalidHeader", "InvalidRelationChange"))]_vars

\* C15's case: 05 FF FF FF was decoded as -5
C15_Witness ==
    /\ pc = "p_relation"
    /\ data = <<5, 255, 255, 255>>
    /\ outcome = Parsed(4, -5)
    /\ cursor = 4

\* a tag byte, the values it may have and the error that names its field
Tag(byte, known, kind, reason) == [byte |-> byte, known |-> known, error |-> Invalid(kind, reason)]

\* the tags of a header whose fields begin at `base`, in the order read
HeaderTags(base) ==
    << Tag(data[base + 1], 0..31, "InvalidHeader", "InvalidQuestGiverRace"),
       Tag(data[base + 2], {0, 1}, "InvalidHeader", "InvalidCompletionCondition"),
       Tag(data[base + 3], 0..31 \cup {64}, "InvalidHeader", "InvalidQuestPlanetType"),
       Tag(data[base + 4], 0..7, "InvalidHeader", "InvalidPlayerStatus"),
       Tag(data[base + 5], 0..31, "InvalidHeader", "InvalidPlayerRace") >>

\* the tags of a parameter: its type, and its critical value
ParameterTags ==
    << Tag(data[9], 0..3, "InvalidParameter", "InvalidType"),
       Tag(data[14], {0, 1}, "InvalidParameter", "InvalidCriticalValue") >>

\* the tags of a location with one parameter change: its type, and the show
\* type and the change type of the change
LocationTags ==
    << Tag(data[21], 0..5, "InvalidLocation", "InvalidLocationType"),
       Tag(data[34], 0..2, "InvalidParameterChange", "InvalidShowType"),
       Tag(data[35], 0..3, "InvalidParameterChange", "InvalidChangeType") >>

\* the decode ends with the error of the first tag outside its known values;
\* with every tag known it ends with none of these errors
EndsAtFirstUnknown(tags, result) ==
    LET unknown == SelectSeq(tags, LAMBDA t : t.byte \notin t.known)
    IN  IF unknown # <<>> THEN result = Failed(Head(unknown).error)
        ELSE result \notin {Failed(tags[i].error) : i \in 1..Len(tags)}

\* C16: a tag byte outside the known values of its field ends the decode with
\* the error naming the field, never with a default: the magic, the races and
\* the player status (a bit outside the flags), the planet type (neither 0x40
\* nor a race mask), the completion condition, the parameter type and critical
\* value, the location type, the show type and the change type.
C16_UnknownTagsAbort ==
    [][/\ (pc' = "p_header" /\ Len(data) >= 21) =>
              IF ~ValidMagic(SubSeq(data, 1, 4))
              THEN outcome' = Failed(Invalid("InvalidHeader", "InvalidMagic"))
              ELSE EndsAtFirstUnknown(HeaderTags(IF BlockPresent THEN 16 ELSE 4), outcome')
       /\ pc' = "p_parameter" => EndsAtFirstUnknown(ParameterTags, outcome')
       /\ pc' = "p_location" => EndsAtFirstUnknown(LocationTags, outcome')]_vars

\* C16's case: a location whose parameter change has the change type 4 was
\* refused
C16_Witness ==
    /\ pc = "p_location"
    /\ data[21] = 1 /\ data[34] = 1 /\ data[35] = 4
    /\ outcome = Failed(Invalid("InvalidParameterChange", "InvalidChangeType"))

----------------------------------------------------------------------------
(* The player: src/qmm-player/src/lib.rs *)

\* a String of the characters of the given code points
Utf8OfUnits(units) == Flatten([i \in 1..Len(units) |-> Utf8OfUnit(units[i])])

\* lib.rs 133-146: the names and what stands for them, as inserted
VariableEntries == {
    << <<"<", "T", "o", "S", "t", "a", "r", ">">>,
       Utf8OfUnits(<<1055, 1088, 1086, 1094, 1080, 1086, 1085>>) >>,
    << <<"<", "T", "o", "P", "l", "a", "n", "e", "t", ">">>,
       Utf8OfUnits(<<1041, 1086, 1085, 1085, 1072, 1089, 1080, 1089>>) >>,
    << <<"<", "F", "r", "o", "m", "S", "t", "a", "r", ">">>,
       Utf8OfUnits(<<1057, 1086, 1083, 1085, 1077, 1095, 1085, 1072, 1103>>) >>,
    << <<"<", "F", "r", "o", "m", "P", "l", "a", "n", "e", "t", ">">>,
       Utf8OfUnits(<<1047, 1077, 1084, 1083, 1103>>) >>,
    << <<"<", "R", "a", "n", "g", "e", "r", ">">>, Utf8OfUnits(<<1043, 1088, 1077, 1092>>) >>,
    << <<"<", "D", "a", "t", "e", ">">>,
       Utf8OfUnits(<<49, 53, 32, 1052, 1072, 1088, 1090, 1072, 32, 51, 51, 48, 48>>) >>,
    << <<"<", "D", "a", "y", ">">>,
       Utf8OfUnits(<<49, 53, 32, 1052, 1072, 1088, 1090, 1072>>) >>,
    << <<"<", "M", "o", "n", "e", "y", ">">>, <<"1", "0", "0", "0", "0">> >> }

\* the BTreeMap<String, String> of the entries
default_variables ==
    [key \in {e[1] : e \in VariableEntries} |->
        (CHOOSE e \in VariableEntries : e[1] = key)[2]]

\* a substitution that blanks the variables the map does not hold
replace_formatted_text_or_blank(variables, text) ==
    [i \in 1..Len(text) |->
        IF text[i].kind # "Variable" THEN text[i]
        ELSE IF text[i].value \in DOMAIN variables
        THEN [text[i] EXCEPT !.value = variables[text[i].value]]
        ELSE [text[i] EXCEPT !.value = <<>>]]

\* lib.rs 97-112
replace_formatted_text(variables, text) ==
    [i \in 1..Len(text) |->
        IF text[i].kind # "Variable" THEN text[i]
        ELSE IF text[i].value \in DOMAIN variables
        THEN [text[i] EXCEPT !.value = variables[text[i].value]]
        ELSE text[i]]

\* lib.rs 85: the variables are put into a text that was scanned
ReplaceFormattedText ==
    /\ pc = "done"
    /\ pc' = "replaced"
    /\ elements' = replace_formatted_text(default_variables, elements)
    /\ UNCHANGED <<buffer, pos, last_el_pos, iters, formulaVars, qmmVars>>

NextPlayer ==
    \/ NextText
    \/ ReplaceFormattedText

SpecPlayer == InitText /\ [][NextPlayer]_vars

\* C20: replace_formatted_text changes nothing but the value of the Variable
\* elements whose text is a key of the lookup table: the number, the order and
\* the kinds of the elements stay, and so does the value of every other
\* element, a Variable that is not in the table included.
C20_OnlyKnownVariablesChange ==
    [][pc' = "replaced" =>
           /\ Len(elements') = Len(elements)
           /\ \A i \in 1..Len(elements) :
                  IF elements[i].kind = "Variable"
                     /\ elements[i].value \in {e[1] : e \in VariableEntries}
                  THEN [elements'[i] EXCEPT !.value = <<>>]
                           = [elements[i] EXCEPT !.value = <<>>]
                  ELSE elements'[i] = elements[i]]_vars

\* C20's case: a text with a Variable of the table, now replaced, with a
\* Variable that is not in the table and with an element of another kind
C20_Witness ==
    /\ pc = "replaced"
    /\ \E i \in 1..Len(elements) :
           /\ elements[i].kind = "Variable"
           /\ elements[i].value = Utf8OfUnits(<<49, 53, 32, 1052, 1072, 1088, 1090, 1072>>)
    /\ \E i \in 1..Len(elements) : elements[i].kind \notin {"Variable"}

----------------------------------------------------------------------------
(* The player on a decoded quest: QuestPlayer::new *)

\* the largest number of locations and of jumps of a quest that is played
MaxPlayed == 2

\* types.rs 194-208: the byte of LocationType::Starting
LocationType_Starting == 1

\* "<Day>!"
DescriptionUnits == <<60, 68, 97, 121, 62, 33>>

\* a location of the given id and type with `texts` text variants
EncPlayedLocation(l) ==
    LE32(1) \o LE32(10) \o LE32(20) \o LE32(l.id) \o LE32(0) \o <<l.ty>> \o LE32(0)
    \o LE32(l.texts)
    \o Repeated(l.texts, EncString(DescriptionUnits) \o Repeated(3, EncString(<<>>)))
    \o <<0>> \o EncString(<<>>)

\* a jump of the given id from the given location, its text "m"
EncPlayedJump(j) ==
    <<0, 0, 0, 0, 0, 0, 240, 63>> \o LE32(0) \o LE32(j.id) \o LE32(j.from) \o LE32(1)
    \o <<1>> \o LE32(2) \o LE32(0) \o LE32(0) \o LE32(0)
    \o EncString(<<>>) \o EncString(<<109>>) \o EncString(<<>>)
    \o Repeated(3, EncString(<<>>))

\* the locations of a quest: n of them, numbered in document order or against
\* it, each Ordinary or Starting, each with no or two text variants
PlayedLocations(n) ==
    {[i \in 1..n |-> [id |-> IF up THEN i ELSE n + 1 - i, ty |-> tys[i], texts |-> texts[i]]] :
        up \in BOOLEAN, tys \in [1..n -> {0, LocationType_Starting}], texts \in [1..n -> {0, 2}]}

\* the jumps of a quest: n of them, numbered in document order, each from
\* location 1 or 2
PlayedJumps(n) == {[i \in 1..n |-> [id |-> i, from |-> froms[i]]] : froms \in [1..n -> {1, 2}]}

\* the quest of the given locations and jumps, with one parameter
EncPlayed(locations, jumps) ==
    LET d == Described(TRUE, 1, Len(locations), Len(jumps), "none", "", "plain")
    IN  EncHeader(d) \o EncParameter(d) \o Repeated(7, EncString(NameUnits(d))) \o EncInfo(d)
        \o Flatten([i \in 1..Len(locations) |-> EncPlayedLocation(locations[i])])
        \o Flatten([i \in 1..Len(jumps) |-> EncPlayedJump(jumps[i])])

PlayedQuests(max) ==
    {EncPlayed(locations, jumps) :
        locations \in UNION {PlayedLocations(n) : n \in 0..max},
        jumps \in UNION {PlayedJumps(n) : n \in 0..max}}

\* Ok(QuestPlayer { state, task_text, .. }) and Err(QuestError)
Playing(state, task_text) ==
    [tag |-> "Ok", state |-> state, task_text |-> task_text, err |-> ""]

QuestError(err) == [tag |-> "Err", state |-> <<>>, task_text |-> <<>>, err |-> err]

PlayerPanic == [tag |-> "Panic", state |-> <<>>, task_text |-> <<>>, err |-> ""]

\* lib.rs 53-57: the index of the first location of type Starting, 0 for None
starting_location(locations) ==
    IF \A i \in 1..Len(locations) : locations[i].ty # LocationType_Starting THEN 0
    ELSE CHOOSE i \in 1..Len(locations) :
             /\ locations[i].ty = LocationType_Starting
             /\ \A j \in 1..(i - 1) : locations[j].ty # LocationType_Starting

\* lib.rs 62-72: the jumps from the location, each available
jump_states(jumps, from) ==
    LET kept == SelectSeq(jumps, LAMBDA jump : jump.from = from)
    IN  [i \in 1..Len(kept) |-> [id |-> kept[i].id, name |-> kept[i].text, available |-> TRUE]]

\* lib.rs 77-80: texts.first().cloned().unwrap() panics on an empty list
description_of(variables, texts) ==
    IF texts = <<>> THEN [tag |-> "Panic", text |-> <<>>]
    ELSE [tag |-> "Ok", text |-> replace_formatted_text(variables, Head(texts))]

\* lib.rs 52-95
QuestPlayer_new(q) ==
    LET s == starting_location(q.locations)
    IN  IF s = 0 THEN QuestError("NoStartingLocation")
        ELSE LET description == description_of(default_variables, q.locations[s].texts)
             IN  IF description.tag = "Panic" THEN PlayerPanic
                 ELSE Playing([location |-> [id |-> q.locations[s].id,
                                             description |-> description.text],
                               jumps |-> jump_states(q.jumps, q.locations[s].id)],
                              replace_formatted_text(default_variables, q.info.task_text))

\* QuestPlayer::new is called on the Quest a decode returned
NewPlayer ==
    /\ pc = "q_ok"
    /\ LET r == QuestPlayer_new(quest)
       IN  /\ pc' = CASE r.tag = "Ok" -> "player_ok"
                      [] r.tag = "Err" -> "player_err"
                      [] r.tag = "Panic" -> "player_panic"
           /\ outcome' = r
    /\ UNCHANGED <<data, cursor, quest, loop_iter, origin, build, scannerVars>>

InitQuestPlayer ==
    /\ pc = "q_header"
    /\ data \in PlayedQuests(MaxPlayed)
    /\ build = [overflow_checks |-> FALSE]
    /\ cursor = 0
    /\ quest = NoQuest
    /\ loop_iter = 0
    /\ outcome = <<>>
    /\ origin = "played"
    /\ ScannersIdle

NextQuestPlayer ==
    \/ DecodeHeader
    \/ DecodeParameter
    \/ DecodeStringReplacements
    \/ DecodeInfo
    \/ DecodeLocation
    \/ AllocateJumps
    \/ DecodeJump
    \/ DecodeEnd
    \/ NewPlayer

SpecQuestPlayer == InitQuestPlayer /\ [][NextQuestPlayer]_vars

----------------------------------------------------------------------------
(* Further properties of the formula scanner *)

RECURSIVE Lays(_, _, _)
\* the tokens lie in buf from p on, in order, each value the characters it
\* stands for, with nothing but spaces before, between and after them
Lays(buf, p, toks) ==
    IF p < Len(buf) /\ buf[p + 1] = " " THEN Lays(buf, p + 1, toks)
    ELSE IF toks = <<>> THEN p = Len(buf)
    ELSE LET v == Head(toks).value
         IN  /\ v # <<>>
             /\ GetIs(buf, p, p + Len(v) - 1, v)
             /\ Lays(buf, p + Len(v), Tail(toks))

\* C22: when Formula::parse succeeds every token's value is the source
\* substring it was scanned from, the tokens are in source order without
\* overlap, and their values concatenated are the input without the spaces
\* between tokens (the spaces inside an open range stay in its value).
C22_ValuesTileTheInput == pc = "f_ok" => Lays(buffer, 0, tokens)

\* C22's case: a successful parse of several tokens, spaces between them, one
\* of them an open range with spaces inside
C22_Witness ==
    /\ pc = "f_ok"
    /\ Len(tokens) >= 2
    /\ Len(Flatten(Values(tokens))) < Len(buffer)
    /\ \E i \in 1..Len(tokens) :
           tokens[i].kind = "ToRange" /\ " " \in Range(tokens[i].value)

\* C23: a Parameter token is made only from `[p<digits>]` with at least one
\* digit, and its index is the decimal value of those digits; a body with a
\* sign or another non-digit, as in `[p-1]`, gives no Parameter token.
C23_ParameterIsDigits ==
    \A i \in 1..Len(tokens) :
        tokens[i].kind = "Parameter" =>
            LET v == tokens[i].value
            IN  /\ Len(v) >= 4
                /\ v[1] = "[" /\ v[2] = "p" /\ v[Len(v)] = "]"
                /\ Range(Slice(v, 2, Len(v) - 1)) \subseteq Digits
                /\ tokens[i].index = AsUsize(DecimalValue(Slice(v, 2, Len(v) - 1)))

----------------------------------------------------------------------------
(* Further properties of the quest decoder *)

\* the String of UTF-16 code units below 128
AsciiText(units) == [i \in 1..Len(units) |-> Utf8Byte(units[i])]

\* C24: a formula text the formula scanner rejects, in a jump's formula or in
\* a parameter-change record of any change kind, fails the whole decode with
\* InvalidFormula holding the scanner's positioned error and the text; the
\* selection formula of a location is always read but scanned only when the
\* selection flag is true: with the flag false a malformed text does not fail
\* the decode and the policy is ByOrder.
C24_RejectedFormulaFailsDecode ==
    (Returned /\ origin = "given") =>
        \A d \in MalformedFormulaQuests :
            data = Encode(d) =>
                IF d.bad = "select_formula" /\ d.how = "off"
                THEN /\ pc = "q_ok"
                     /\ cursor = Len(data)
                     /\ quest.locations[1].select_type.kind = "ByOrder"
                ELSE /\ pc = "q_err"
                     /\ outcome.kind = "InvalidFormula"
                     /\ outcome.error = FormulaError(2, "UnexpectedToken", "x", <<>>)
                     /\ outcome.error = Formula_parse(AsciiText(MalformedFormula)).error
                     /\ outcome.formula = AsciiText(MalformedFormula)

\* C24's case: the decode of a quest whose one malformed formula is that of
\* its jump has been refused
C24_Witness ==
    /\ pc = "q_err"
    /\ origin = "given"
    /\ outcome.kind = "InvalidFormula"
    /\ outcome.formula = AsciiText(MalformedFormula)
    /\ data = Encode(Described(TRUE, 1, 1, 1, "jump_formula", "", "plain"))

----------------------------------------------------------------------------
(* Further properties of the markup scanner *)

\* where the element i of els begins in the text the elements tile
Offset(els, i) == Len(Flatten(Values(SubSeq(els, 1, i - 1))))

RECURSIVE NextLt(_, _)
\* the position of the first `<` of buf from p on, Len(buf) when there is none
NextLt(buf, p) == IF p >= Len(buf) \/ buf[p + 1] = "<" THEN p ELSE NextLt(buf, p + 1)

\* the first `<` after the open tag that ends at p begins the close tag
Closed(buf, p) ==
    GetIs(buf, NextLt(buf, p), NextLt(buf, p) + Len(CLR_END_TAG) - 1, CLR_END_TAG)

\* C25: a Selection element is emitted only for `<clr>`, an inner text with no
\* `<` (possibly empty) and `<clrEnd>`; its payload is the inner text and its
\* value the whole span. An open tag with no close tag, or whose next `<` does
\* not begin `<clrEnd>`, yields no Selection and stays literal text.
C25_SelectionShape ==
    pc = "done" =>
        /\ \A i \in 1..Len(elements) :
               elements[i].kind = "Selection" =>
                   /\ elements[i].value = CLR_BEGIN_TAG \o elements[i].text \o CLR_END_TAG
                   /\ "<" \notin Range(elements[i].text)
                   /\ GetIs(buffer, Offset(elements, i),
                            Offset(elements, i) + Len(elements[i].value) - 1,
                            elements[i].value)
        /\ (GetIs(buffer, 0, Len(CLR_BEGIN_TAG) - 1, CLR_BEGIN_TAG)
                /\ ~Closed(buffer, Len(CLR_BEGIN_TAG)))
               => /\ elements[1].kind = "Text"
                  /\ GetIs(elements[1].value, 0, Len(CLR_BEGIN_TAG) - 1, CLR_BEGIN_TAG)

\* C25's case: a parse that returned a Selection after an open tag left as
\* literal text
C25_Witness ==
    /\ pc = "done"
    /\ Len(elements) >= 2
    /\ elements[1].kind = "Text"
    /\ GetIs(elements[1].value, 0, Len(CLR_BEGIN_TAG) - 1, CLR_BEGIN_TAG)
    /\ elements[2].kind = "Selection"

\* C26: FormattedText::parse emits a Parameter element exactly for a span
\* `[p<digits>]` with at least one digit, its index the decimal value of the
\* digits and its value the whole span: every Parameter element is such a
\* span, and no such span is left in literal text; `[p]`, `[]`, `[pp]`, `[p-]`,
\* `[p ]` and an unterminated `[p12` yield no Parameter element.
C26_ParameterExactly ==
    pc = "done" =>
        \A i \in 1..Len(elements) :
            /\ elements[i].kind = "Parameter" =>
                   /\ ParameterShape(buffer, Offset(elements, i)).ok
                   /\ ParameterShape(buffer, Offset(elements, i)).end
                          = Offset(elements, i) + Len(elements[i].value)
                   /\ elements[i].index = ParameterShape(buffer, Offset(elements, i)).int
                   /\ GetIs(buffer, Offset(elements, i),
                            Offset(elements, i) + Len(elements[i].value) - 1,
                            elements[i].value)
            /\ elements[i].kind = "Text" =>
                   \A p \in Offset(elements, i)..(Offset(elements, i + 1) - 1) :
                       ~ParameterShape(buffer, p).ok

\* C27: in every FormattedText returned no two consecutive elements are both
\* Text and no Text element has an empty value: the literal characters between
\* two recognized elements, or between one and an end of the input, are one
\* Text element.
C27_TextIsMerged ==
    pc = "done" =>
        \A i \in 1..Len(elements) :
            elements[i].kind = "Text" =>
                /\ elements[i].value # <<>>
                /\ i < Len(elements) => elements[i + 1].kind # "Text"

\* C27's case: a parse that returned literal text of several characters before,
\* between and after recognized elements
C27_Witness ==
    /\ pc = "done"
    /\ Len(elements) >= 3
    /\ \E i \in 2..(Len(elements) - 1) :
           /\ elements[i - 1].kind # "Text"
           /\ elements[i].kind = "Text" /\ Len(elements[i].value) >= 2
           /\ elements[i + 1].kind # "Text"

----------------------------------------------------------------------------
(* Further properties of the decoders of the parts *)

\* C28: HeaderParser::parse_relation_change is defined for every first byte b
\* of 0..255: before FF FF FF it returns the arithmetic negation of b read as a
\* signed 8-bit value, and the result lies in -128..127: the negation of no
\* first byte overflows.
C28_NegationDefined ==
    [][(pc' = "p_relation" /\ Remain >= 4
            /\ Slice(data, cursor + 1, cursor + 4) = <<255, 255, 255>>) =>
           /\ outcome' = Parsed(cursor + 4, -AsI8(data[cursor + 1]))
           /\ outcome'.val \in -128..127]_vars

----------------------------------------------------------------------------
(* Properties of the player on a decoded quest *)

\* the indexes of the locations of type Starting
Startings(locations) ==
    {i \in 1..Len(locations) : locations[i].ty = LocationType_Starting}

\* the first of a non-empty set of indexes
First(indexes) == CHOOSE i \in indexes : \A j \in indexes : i <= j

\* C29: for a decoded Quest, QuestPlayer::new returns Err(NoStartingLocation)
\* when no location has type Starting, and else Ok with the state at the first
\* Starting location in document order, holding exactly the jumps whose source
\* is that location, in document order, each available; also when that
\* location has no text variant.
C29_StartsAtFirstStarting ==
    pc \in {"player_ok", "player_err", "player_panic"} =>
        IF Startings(quest.locations) = {}
        THEN pc = "player_err" /\ outcome.err = "NoStartingLocation"
        ELSE LET start == quest.locations[First(Startings(quest.locations))]
                 from == SelectSeq(quest.jumps, LAMBDA jump : jump.from = start.id)
             IN  /\ pc = "player_ok"
                 /\ outcome.state.location.id = start.id
                 /\ Len(outcome.state.jumps) = Len(from)
                 /\ \A k \in 1..Len(from) :
                        /\ outcome.state.jumps[k].id = from[k].id
                        /\ outcome.state.jumps[k].name = from[k].text
                        /\ outcome.state.jumps[k].available

\* the text-variant count a location of a played quest declares, the record
\* at p: after five 4-byte fields, the type byte and an empty list of changes
DeclaredVariants(buf, p) == buf[p + 26] + 256 * buf[p + 27]

\* C30: every Location the decoder returns has as many texts as media
\* records, each variant read as a text and then its media, and both lists
\* hold exactly the declared number of variants.
C30_TextsPairMedia ==
    [][(pc = "q_locations" /\ Len(quest'.locations) > Len(quest.locations)) =>
           LET location == quest'.locations[Len(quest'.locations)]
           IN  /\ Len(location.texts) = Len(location.media)
               /\ Len(location.texts) = DeclaredVariants(data, cursor)
               /\ quest'.locations = Append(quest.locations, location)]_vars

\* C30's case: a location of two variants has been decoded after one of none
C30_Witness ==
    /\ pc = "q_locations"
    /\ Len(quest.locations) = 2
    /\ Len(quest.locations[1].texts) = 0
    /\ Len(quest.locations[2].texts) = 2
    /\ Len(quest.locations[2].media) = 2

=============================================================================
